---- MODULE Spec2Model ----
(***************************************************************************)
(* Block splitting and LRT / Benjamini-Hochberg aggregation of babappa.    *)
(*                                                                         *)
(* The module holds one state machine per component of the core:           *)
(*   SpecAdjust  adjust_to_codon_boundaries, applied and re-applied        *)
(*   SpecSplit   split_by_gard_json, one invocation                        *)
(*   SpecFilter  filter_blocks.main over a tree of block files             *)
(*   SpecBH      multipletests(method="fdr_bh") over one batch of p-values *)
(*   SpecGene    lrt_bh_correction.py over the CSV tables of a directory   *)
(*   SpecSite    lrt_bh_correction.sitemodel.py over one CSV table         *)
(*   SpecDriver  script0.5.py and the two script8.py over their items      *)
(*   SpecPair    two invocations of the splitter or the site aggregator    *)
(*   SpecApi     the jobs of /run on one model and the client of /stream   *)
(* Every specification runs over the same variables; the variables of the  *)
(* components a specification does not run stay at their idle values.      *)
(***************************************************************************)
EXTENDS Integers, Sequences, FiniteSets, TLC

\* ------------------------------------------------------------------ bounds

\* Longest alignment (nucleotides) of the splitter's inputs.
MaxLen == 6
\* Largest native coordinate of a breakpoint range.
MaxCoord == 4
\* Largest site count the detector's report carries.
MaxSites == 3
\* Largest nucleotide coordinate handed to adjust_to_codon_boundaries alone.
MaxNt == 8
\* Most records in one block file.
MaxRecs == 2
\* Most p-values in one batch handed to the corrector alone.
MaxTests == 4
\* Most rows in one per-gene results table.
MaxRows == 3
\* Most items (alignments, species directories) a driver goes over.
MaxItems == 3

\* Most lines one script writes to its log.
MaxLines == 2

\* ------------------------------------------------------------------ state

VARIABLES
    \* split_recombination_blocks.py
    records,        \* the parsed alignment: the length of each record's sequence
    gard,           \* the parsed GARD report: [bps, input]
    aln_len_nt,     \* len(records[0].seq)
    codon_blocks,   \* read_blocks_from_breakpointData(gard)
    scale,          \* infer_scale_factor(aln_len_nt, gard)
    nt_blocks,      \* <<cs, ce, start_nt, end_nt, trim_start, trim_end>> rows
    out_files,      \* block files written: [idx, cs, ce, snt, ent]
    log,            \* lines of split_recombination_blocks.log
    split_pc,       \* position inside split_by_gard_json
    split_err,      \* the exception split_by_gard_json ended with, or "none"
    \* adjust_to_codon_boundaries applied on its own
    adj_args,       \* <<start_nt, end_nt, aln_len_nt>>
    adj_res,        \* the results of the successive applications
    \* filter_blocks.py
    recomb_dir0,    \* recombination_blocks/ as it was when main() began
    blocks_fs,      \* the files under recombination_blocks/: path -> content
    discard_fs,     \* the files under discarded_blocks/: <<organism, file>> -> content
    walk_todo,      \* the files os.walk has still to yield
    filt_out,       \* the lines main() printed: [path, ok, reason]
    filt_pc,        \* "idle", "walk", "done" or "raised"
    \* multipletests(pvals, method="fdr_bh") applied on its own
    bh_pvals,       \* the p-values passed in, in the caller's order
    bh_corrected,   \* <<>> before the call, then <<pvals_corrected>>
    \* lrt_bh_correction.py (per-gene branch and branch-site tests)
    csv_dir,        \* the CSV files of the working directory: name -> table
    csv_todo,       \* the files "for filename in csv_files" has still to take
    xlsx_out,       \* the workbooks written: name -> [Branchsite_Model, Branch_Model]
    gene_pc,        \* "idle", "loop", "done", "exited" or "raised"
    \* lrt_bh_correction.sitemodel.py
    site_csv,       \* the table read from sys.argv[1]
    lrt_results_csv,\* <<>>, or <<rows>> once lrt_results.csv is written
    site_pc,        \* "idle", "start", "done", "exited" or "raised"
    \* the drivers: script0.5.py and the two script8.py
    drv,            \* the driver that runs
    drv_items,      \* its items in the order of its loop: what each child does
    drv_gard,       \* script0.5: the GARD jobs not yet completed
    drv_json,       \* script0.5: the items whose GARD report exists
    drv_next,       \* the position of the loop in drv_items
    drv_invoked,    \* the items whose child process was run by the loop
    drv_moved,      \* script8: the species whose lrt_results.csv was moved
    drv_out,        \* the reports printed: [item, what]
    drv_pc,         \* "idle", "gard", "loop", "filter", "done" or "raised"
    \* two invocations of the splitter, or of the site aggregator under script8.py
    par_inv,        \* invocation -> [in, pc, nt_blocks, buf]: its input and its locals
    par_fs,         \* the files the invocations write: path -> content
    par_serial,     \* TRUE when the caller runs them one after the other
    \* main_api.py: the jobs of /run on one pipeline model and the client of /stream
    api_model,      \* the runner script of the model the jobs were submitted for
    api_jobs,       \* job -> [status, pc, k, fd, off, codes, rc]: RUN_STATUS and the job's process
    mf_files,       \* the files of the model folder: name -> the jobs whose data it holds
    mf_dirs,        \* the sub-folders of the model folder: name -> (file -> lines)
    api_out,        \* job -> the sub-folders moved to output_folder/model/job_id
    file_positions, \* event_generator: log file -> lines read so far
    str_out,        \* the events the client of /stream was sent: [file, line]
    str_pc          \* "off", "poll" (before the tail), "check" (before the status test) or "end"

splitVars == <<records, gard, aln_len_nt, codon_blocks, scale, nt_blocks,
               out_files, log, split_pc, split_err>>
adjVars == <<adj_args, adj_res>>
filtVars == <<recomb_dir0, blocks_fs, discard_fs, walk_todo, filt_out, filt_pc>>
bhVars == <<bh_pvals, bh_corrected>>
geneVars == <<csv_dir, csv_todo, xlsx_out, gene_pc>>
siteVars == <<site_csv, lrt_results_csv, site_pc>>
drvVars == <<drv, drv_items, drv_gard, drv_json, drv_next, drv_invoked, drv_moved,
             drv_out, drv_pc>>
pairVars == <<par_inv, par_fs, par_serial>>
apiVars == <<api_model, api_jobs, mf_files, mf_dirs, api_out, file_positions, str_out,
             str_pc>>
vars == <<splitVars, adjVars, filtVars, bhVars, geneVars, siteVars, drvVars,
         pairVars,
         apiVars>>

\* ---------------------------------------------------------------- helpers

Max(a, b) == IF a >= b THEN a ELSE b
Min(a, b) == IF a <= b THEN a ELSE b

\* --------------------------------------------- split_recombination_blocks

\* A breakpoint range as the report holds it: a list of integers (coordinates
\* are 1-based), here two of them or, malformed, one.
Rngs == {<<s, e>> : s \in 1..MaxCoord, e \in 1..MaxCoord} \cup {<<1>>}

\* The "bps" lists of the report, in the order of their partition keys.
BpsLists == {<<>>} \cup {<<r>> : r \in Rngs} \cup {<<r1, r2>> : r1 \in Rngs, r2 \in Rngs}

\* The report's "input" entry: absent, not a mapping, a mapping without
\* "number of sites", or a mapping whose "number of sites" is an integer or
\* another JSON value (a string, a float, null, a list).
JsonInputs ==
    {[t |-> k, v |-> 0] : k \in {"absent", "notdict", "nokey", "other"}}
    \cup {[t |-> "int", v |-> n] : n \in (0 - 1)..MaxSites}

\* (start, end) order of sorted(set(blocks), key=lambda x: (x[0], x[1])).
BlockLess(a, b) == a[1] < b[1] \/ (a[1] = b[1] /\ a[2] < b[2])

RECURSIVE SortBlocks(_)
SortBlocks(S) ==
    IF S = {} THEN <<>>
    ELSE LET m == CHOOSE x \in S : \A y \in S \ {x} : BlockLess(x, y)
         IN <<m>> \o SortBlocks(S \ {m})

read_blocks_from_breakpointData(gard_json) ==
    LET bps == gard_json.bps
        kept == {bps[i] : i \in {j \in 1..Len(bps) : Len(bps[j]) = 2 /\ bps[j][1] <= bps[j][2]}}
    IN SortBlocks(kept)

\* gard_json.get("input", {}).get(...) raises when "input" is no mapping.
infer_raises(gard_json) == gard_json.input.t = "notdict"

\* The site count of the report is never looked at.
infer_scale_factor_NoInference(seq_len_nt, gard_json) == 1

infer_scale_factor(seq_len_nt, gard_json) ==
    LET n_sites == gard_json.input
    IN IF n_sites.t = "int" /\ n_sites.v > 0
       THEN IF seq_len_nt % n_sites.v = 0
            THEN seq_len_nt \div n_sites.v
            ELSE 1
       ELSE 1

\* The boundaries moved outward: the start down and the end up to a codon
\* boundary.
adjust_to_codon_boundaries_Outward(start_nt, end_nt, len_nt) ==
    LET s1 == start_nt - ((start_nt - 1) % 3)
        e1 == IF end_nt % 3 # 0 THEN end_nt + (3 - (end_nt % 3)) ELSE end_nt
        s2 == Max(1, Min(s1, len_nt))
        e2 == Max(1, Min(e1, len_nt))
    IN <<s2, e2, s2 - start_nt, end_nt - e2>>

adjust_to_codon_boundaries(start_nt, end_nt, len_nt) ==
    LET s1 == IF (start_nt - 1) % 3 # 0
              THEN start_nt + (3 - ((start_nt - 1) % 3))
              ELSE start_nt
        e1 == IF end_nt % 3 # 0 THEN end_nt - (end_nt % 3) ELSE end_nt
        s2 == Max(1, Min(s1, len_nt))
        e2 == Max(1, Min(e1, len_nt))
    IN <<s2, e2, s2 - start_nt, end_nt - e2>>

\* The row of an inverted interval is kept.
ConvertOne_KeepInverted(b, sc, len_nt) ==
    LET a == adjust_to_codon_boundaries((b[1] - 1) * sc + 1, b[2] * sc, len_nt)
    IN <<<<b[1], b[2], a[1], a[2], a[3], a[4]>>>>

\* The nt_blocks row of one native interval, or no row when it is inverted.
ConvertOne(b, sc, len_nt) ==
    LET start_nt == (b[1] - 1) * sc + 1
        end_nt == b[2] * sc
        a == adjust_to_codon_boundaries(start_nt, end_nt, len_nt)
    IN IF a[1] <= a[2] THEN <<<<b[1], b[2], a[1], a[2], a[3], a[4]>>>> ELSE <<>>

RECURSIVE ConvertBlocks(_, _, _)
ConvertBlocks(blocks, sc, len_nt) ==
    IF blocks = <<>> THEN <<>>
    ELSE ConvertOne(Head(blocks), sc, len_nt) \o ConvertBlocks(Tail(blocks), sc, len_nt)

\* The alignments read: none, one or two records of equal length, or two
\* records of different lengths.
RecordLists ==
    {<<>>} \cup {<<l>> : l \in 0..MaxLen} \cup {<<l, l>> : l \in 0..MaxLen}
    \cup {<<MaxLen, MaxLen - 1>>}

SplitIdle ==
    /\ records = <<>>
    /\ gard = [bps |-> <<>>, input |-> [t |-> "absent", v |-> 0]]
    /\ aln_len_nt = 0
    /\ codon_blocks = <<>>
    /\ scale = 1
    /\ nt_blocks = <<>>
    /\ out_files = {}
    /\ log = <<>>
    /\ split_pc = "idle"
    /\ split_err = "none"

AdjIdle == adj_args = <<1, 1, 1>> /\ adj_res = <<>>

BHIdle == bh_pvals = <<>> /\ bh_corrected = <<>>

SiteIdle ==
    /\ site_csv = [has_cols |-> FALSE, rows |-> <<>>]
    /\ lrt_results_csv = <<>>
    /\ site_pc = "idle"

GeneIdle ==
    /\ csv_dir = <<>>
    /\ csv_todo = {}
    /\ xlsx_out = <<>>
    /\ gene_pc = "idle"

DrvIdle ==
    /\ drv = "none"
    /\ drv_items = <<>>
    /\ drv_gard = {}
    /\ drv_json = {}
    /\ drv_next = 1
    /\ drv_invoked = {}
    /\ drv_moved = {}
    /\ drv_out = <<>>
    /\ drv_pc = "idle"

FiltIdle ==
    /\ recomb_dir0 = <<>>
    /\ blocks_fs = <<>>
    /\ discard_fs = <<>>
    /\ walk_todo = {}
    /\ filt_out = <<>>
    /\ filt_pc = "idle"

PairIdle ==
    /\ par_inv = <<>>
    /\ par_fs = <<>>
    /\ par_serial = TRUE

ApiIdle ==
    /\ api_model = "none"
    /\ api_jobs = <<>>
    /\ mf_files = <<>>
    /\ mf_dirs = <<>>
    /\ api_out = <<>>
    /\ file_positions = <<>>
    /\ str_out = <<>>
    /\ str_pc = "off"



\* records = list(SeqIO.parse(...)); the two ValueErrors of the alignment.
LoadAlignment ==
    /\ split_pc = "start"
    /\ IF records = <<>>
       THEN /\ split_pc' = "raised"
            /\ split_err' = "No sequences found"
            /\ UNCHANGED aln_len_nt
       ELSE IF \E i \in 1..Len(records) : records[i] # records[1]
       THEN /\ split_pc' = "raised"
            /\ split_err' = "Inconsistent sequence lengths"
            /\ aln_len_nt' = records[1]
       ELSE /\ aln_len_nt' = records[1]
            /\ split_pc' = "loaded"
            /\ UNCHANGED split_err
    /\ UNCHANGED <<records, gard, codon_blocks, scale, nt_blocks, out_files, log>>
    /\ UNCHANGED <<adjVars, filtVars, bhVars, geneVars, siteVars, drvVars, pairVars, apiVars>>

\* codon_blocks = read_blocks_from_breakpointData(gard); ValueError when empty;
\* scale = infer_scale_factor(aln_len_nt, gard).
LoadJson ==
    /\ split_pc = "loaded"
    /\ codon_blocks' = read_blocks_from_breakpointData(gard)
    /\ IF codon_blocks' = <<>>
       THEN /\ split_pc' = "raised"
            /\ split_err' = "No blocks found"
            /\ UNCHANGED scale
       ELSE IF infer_raises(gard)
       THEN /\ split_pc' = "raised"
            /\ split_err' = "AttributeError"
            /\ UNCHANGED scale
       ELSE /\ scale' = infer_scale_factor(aln_len_nt, gard)
            /\ split_pc' = "scaled"
            /\ UNCHANGED split_err
    /\ UNCHANGED <<records, gard, aln_len_nt, nt_blocks, out_files, log>>
    /\ UNCHANGED <<adjVars, filtVars, bhVars, geneVars, siteVars, drvVars, pairVars, apiVars>>

\* The conversion loop, then the log is opened and its header written.
Convert ==
    /\ split_pc = "scaled"
    /\ nt_blocks' = ConvertBlocks(codon_blocks, scale, aln_len_nt)
    /\ log' = <<[kind |-> "header", len |-> aln_len_nt, scale |-> scale,
                 blocks |-> nt_blocks']>>
    /\ split_pc' = "emit"
    /\ UNCHANGED <<records, gard, aln_len_nt, codon_blocks, scale, out_files, split_err>>
    /\ UNCHANGED <<adjVars, filtVars, bhVars, geneVars, siteVars, drvVars, pairVars, apiVars>>

\* The number of nt_blocks rows the emit loop has gone through.
Emitted == Len(log) - 1

\* One turn of "for idx, (...) in enumerate(nt_blocks, 1)".
EmitBlock ==
    /\ split_pc = "emit"
    /\ Emitted < Len(nt_blocks)
    /\ LET idx == Emitted + 1
           b == nt_blocks[idx]
       IN IF (b[4] - b[3] + 1) < 3
          THEN /\ log' = Append(log, [kind |-> "skipped", idx |-> idx])
               /\ UNCHANGED out_files
          ELSE /\ out_files' = out_files \cup
                      {[idx |-> idx, cs |-> b[1], ce |-> b[2], snt |-> b[3], ent |-> b[4]]}
               /\ log' = Append(log, [kind |-> "saved", idx |-> idx,
                                      trim_start |-> b[5], trim_end |-> b[6]])
    /\ UNCHANGED <<records, gard, aln_len_nt, codon_blocks, scale, nt_blocks, split_pc, split_err>>
    /\ UNCHANGED <<adjVars, filtVars, bhVars, geneVars, siteVars, drvVars, pairVars, apiVars>>

SplitDone ==
    /\ split_pc = "emit"
    /\ Emitted = Len(nt_blocks)
    /\ split_pc' = "done"
    /\ UNCHANGED <<records, gard, aln_len_nt, codon_blocks, scale, nt_blocks, out_files, log,
                   split_err>>
    /\ UNCHANGED <<adjVars, filtVars, bhVars, geneVars, siteVars, drvVars, pairVars, apiVars>>

InitSplit ==
    /\ records \in RecordLists
    /\ gard \in [bps : BpsLists, input : JsonInputs]
    /\ aln_len_nt = 0
    /\ codon_blocks = <<>>
    /\ scale = 1
    /\ nt_blocks = <<>>
    /\ out_files = {}
    /\ log = <<>>
    /\ split_pc = "start"
    /\ split_err = "none"
    /\ AdjIdle
    /\ FiltIdle
    /\ BHIdle
    /\ GeneIdle
    /\ SiteIdle
    /\ DrvIdle
    /\ PairIdle
    /\ ApiIdle

NextSplit == LoadAlignment \/ LoadJson \/ Convert \/ EmitBlock \/ SplitDone

SpecSplit == InitSplit /\ [][NextSplit]_vars

\* ------------------------------------------ adjust_to_codon_boundaries alone

AdjustFirst ==
    /\ adj_res = <<>>
    /\ adj_res' = <<adjust_to_codon_boundaries(adj_args[1], adj_args[2], adj_args[3])>>
    /\ UNCHANGED <<adj_args, splitVars, filtVars, bhVars, geneVars, siteVars, drvVars, pairVars, apiVars>>

\* The function applied to the interval it returned, with the same length.
AdjustAgain ==
    /\ Len(adj_res) = 1
    /\ adj_res' = Append(adj_res,
                         adjust_to_codon_boundaries(adj_res[1][1], adj_res[1][2], adj_args[3]))
    /\ UNCHANGED <<adj_args, splitVars, filtVars, bhVars, geneVars, siteVars, drvVars, pairVars, apiVars>>

InitAdjust ==
    /\ adj_args \in (0..MaxNt) \X (0..MaxNt) \X (0..MaxLen)
    /\ adj_res = <<>>
    /\ SplitIdle
    /\ FiltIdle
    /\ BHIdle
    /\ GeneIdle
    /\ SiteIdle
    /\ DrvIdle
    /\ PairIdle
    /\ ApiIdle

NextAdjust == AdjustFirst \/ AdjustAgain

SpecAdjust == InitAdjust /\ [][NextAdjust]_vars

\* ------------------------------------------------------------ filter_blocks

\* str.upper() on one symbol of a sequence.
Upper(ch) ==
    CASE ch = "a" -> "A"
      [] ch = "c" -> "C"
      [] ch = "g" -> "G"
      [] ch = "t" -> "T"
      [] OTHER -> ch

stop_codons == {<<"T", "A", "A">>, <<"T", "A", "G">>, <<"T", "G", "A">>}

\* range(0, len(seq) - 3, 3): the last codon is left out.
CodonOffsets_SkipTerminal(seq) == {i \in 0..(Len(seq) - 4) : i % 3 = 0}

\* The offsets of range(0, len(seq) - 2, 3).
CodonOffsets(seq) == {i \in 0..(Len(seq) - 3) : i % 3 = 0}

has_stop_codon(seq) ==
    \E i \in CodonOffsets(seq) :
        <<Upper(seq[i + 1]), Upper(seq[i + 2]), Upper(seq[i + 3])>> \in stop_codons

\* The first record, in file order, with a stop codon (0 when there is none).
RECURSIVE FirstStop(_, _)
FirstStop(recs, i) ==
    IF i > Len(recs) THEN 0
    ELSE IF has_stop_codon(recs[i].seq) THEN i
    ELSE FirstStop(recs, i + 1)

\* check_block with the stop codons looked for before the length.
check_block_StopFirst(recs) ==
    IF recs = <<>> THEN <<FALSE, [kind |-> "empty alignment", len |-> 0, id |-> ""]>>
    ELSE IF FirstStop(recs, 1) # 0
    THEN <<FALSE, [kind |-> "stop codon found in", len |-> 0,
                   id |-> recs[FirstStop(recs, 1)].id]>>
    ELSE IF Len(recs[1].seq) % 3 # 0
    THEN <<FALSE, [kind |-> "length not divisible by 3", len |-> Len(recs[1].seq), id |-> ""]>>
    ELSE <<TRUE, [kind |-> "valid", len |-> 0, id |-> ""]>>

\* check_block on the records SeqIO.parse yields: <<ok, reason>>.
check_block(recs) ==
    IF recs = <<>> THEN <<FALSE, [kind |-> "empty alignment", len |-> 0, id |-> ""]>>
    ELSE IF Len(recs[1].seq) % 3 # 0
    THEN <<FALSE, [kind |-> "length not divisible by 3", len |-> Len(recs[1].seq), id |-> ""]>>
    ELSE IF FirstStop(recs, 1) # 0
    THEN <<FALSE, [kind |-> "stop codon found in", len |-> 0,
                   id |-> recs[FirstStop(recs, 1)].id]>>
    ELSE <<TRUE, [kind |-> "valid", len |-> 0, id |-> ""]>>

\* The sequences the block files are made of.
BlockSeqs ==
    { <<"A", "T", "G", "G", "G", "G">>,
      <<"A", "T", "G", "T", "A", "A", "G", "G", "G">>,
      <<"A", "T", "G", "t", "g", "a">>,
      <<"A", "T", "G", "G">>,
      <<"A", "T", "G", "T", "A", "G", "G">> }

RecIds == <<"seq1", "seq2", "seq3", "seq4">>

\* The record lists of at most n records, named seq1, seq2, ... in file order.
RECURSIVE RecLists(_)
RecLists(n) ==
    IF n = 0 THEN {<<>>}
    ELSE LET shorter == RecLists(n - 1)
         IN shorter \cup
            {Append(r, [id |-> RecIds[n], seq |-> q]) :
                r \in {x \in shorter : Len(x) = n - 1}, q \in BlockSeqs}

\* What a file holds: records SeqIO.parse can read, or bytes it raises on.
Contents ==
    {[readable |-> TRUE, recs |-> r] : r \in RecLists(MaxRecs)}
    \cup {[readable |-> FALSE, recs |-> <<>>]}

\* The block files of the tree; the second has the organism directory of the
\* first one level deeper.
BlockPaths ==
    { [dir |-> <<"orgA">>, file |-> "x", ext |-> ".fas"],
      [dir |-> <<"sub", "orgA">>, file |-> "x", ext |-> ".fas"] }

\* A file of the tree that is no block: the log the splitter leaves there.
LogPath == [dir |-> <<"orgA">>, file |-> "split_recombination_blocks", ext |-> ".log"]

\* os.path.basename(os.path.dirname(fpath)), then os.path.join(dest_dir, file).
DiscardDest(path) == <<path.dir[Len(path.dir)], path.file, path.ext>>

\* The function f with f[k] = v added or replaced.
Put(f, k, v) == [x \in (DOMAIN f) \cup {k} |-> IF x = k THEN v ELSE f[x]]
\* The function f without its entry k.
Drop(f, k) == [x \in (DOMAIN f) \ {k} |-> f[x]]

\* One file of the walk: skipped when it is no .fas file, else checked and
\* kept in place or moved to the discard directory.
VisitFile ==
    /\ filt_pc = "walk"
    /\ \E path \in walk_todo :
         /\ walk_todo' = walk_todo \ {path}
         /\ IF path.ext # ".fas"
            THEN UNCHANGED <<blocks_fs, discard_fs, filt_out, filt_pc>>
            ELSE IF ~blocks_fs[path].readable
            THEN /\ filt_pc' = "raised"
                 /\ UNCHANGED <<blocks_fs, discard_fs, filt_out>>
            ELSE LET res == check_block(blocks_fs[path].recs)
                 IN /\ filt_out' = Append(filt_out,
                                          [path |-> path, ok |-> res[1], reason |-> res[2]])
                    /\ IF res[1]
                       THEN UNCHANGED <<blocks_fs, discard_fs>>
                       ELSE /\ discard_fs' = Put(discard_fs, DiscardDest(path), blocks_fs[path])
                            /\ blocks_fs' = Drop(blocks_fs, path)
                    /\ UNCHANGED filt_pc
    /\ UNCHANGED recomb_dir0
    /\ UNCHANGED <<splitVars, adjVars, bhVars, geneVars, siteVars, drvVars, pairVars, apiVars>>

FilterDone ==
    /\ filt_pc = "walk"
    /\ walk_todo = {}
    /\ filt_pc' = "done"
    /\ UNCHANGED <<recomb_dir0, blocks_fs, discard_fs, walk_todo, filt_out>>
    /\ UNCHANGED <<splitVars, adjVars, bhVars, geneVars, siteVars, drvVars, pairVars, apiVars>>

InitFilter ==
    /\ \E present \in SUBSET BlockPaths :
         /\ blocks_fs \in [present \cup {LogPath} -> Contents]
         /\ walk_todo = present \cup {LogPath}
    /\ blocks_fs[LogPath] = [readable |-> FALSE, recs |-> <<>>]
    /\ recomb_dir0 = blocks_fs
    /\ discard_fs = <<>>
    /\ filt_out = <<>>
    /\ filt_pc = "walk"
    /\ SplitIdle
    /\ AdjIdle
    /\ BHIdle
    /\ GeneIdle
    /\ SiteIdle
    /\ DrvIdle
    /\ PairIdle
    /\ ApiIdle

NextFilter == VisitFile \/ FilterDone

SpecFilter == InitFilter /\ [][NextFilter]_vars

\* ------------------------------------------- multipletests(method="fdr_bh")

\* Numbers are exact fractions [n, d] in lowest terms with d > 0; 0/0 is NaN.
RECURSIVE GCD(_, _)
GCD(a, b) == IF b = 0 THEN a ELSE GCD(b, a % b)

Abs(x) == IF x < 0 THEN 0 - x ELSE x

Rat(n, d) ==
    IF d = 0 THEN [n |-> 0, d |-> 0]
    ELSE LET g == GCD(Abs(n), Abs(d))
             sg == IF d < 0 THEN 0 - 1 ELSE 1
         IN [n |-> sg * (n \div g), d |-> sg * (d \div g)]

NaN == [n |-> 0, d |-> 0]
IsNaN(x) == x.d = 0

RLess(a, b) == a.n * b.d < b.n * a.d

\* np.argsort: the NaNs come last.
SortsBefore(a, b) == ~IsNaN(a) /\ (IsNaN(b) \/ RLess(a, b))

\* np.minimum: a NaN operand gives NaN.
NpMinimum(a, b) == IF IsNaN(a) \/ IsNaN(b) THEN NaN ELSE IF RLess(b, a) THEN b ELSE a

\* sortind = np.argsort(pvals): the indices of pvals, smallest value first,
\* equal values in index order.
RECURSIVE ArgSort(_, _)
ArgSort(pvals, todo) ==
    IF todo = {} THEN <<>>
    ELSE LET k == CHOOSE i \in todo :
                     \A j \in todo \ {i} :
                         \/ SortsBefore(pvals[i], pvals[j])
                         \/ (~SortsBefore(pvals[j], pvals[i]) /\ i < j)
         IN <<k>> \o ArgSort(pvals, todo \ {k})

\* pvals_sorted / ecdffactor, with ecdffactor[i] = i / ntests.
CorrectedRaw(pvals, sortind) ==
    [i \in 1..Len(pvals) |->
        IF IsNaN(pvals[sortind[i]]) THEN NaN
        ELSE Rat(pvals[sortind[i]].n * Len(pvals), pvals[sortind[i]].d * i)]

\* The step-up values left as they are, the running minimum forgotten.
AccumulateFrom_NoMinimum(raw, i) == raw[i]

\* np.minimum.accumulate(raw[::-1])[::-1], entry i.
RECURSIVE AccumulateFrom(_, _)
AccumulateFrom(raw, i) ==
    IF i = Len(raw) THEN raw[i]
    ELSE NpMinimum(AccumulateFrom(raw, i + 1), raw[i])

\* pvals_corrected[pvals_corrected > 1] = 1
ClipToOne(x) == IF ~IsNaN(x) /\ RLess(Rat(1, 1), x) THEN Rat(1, 1) ELSE x

\* The position of index k in sortind.
RankOf(sortind, k) == CHOOSE i \in 1..Len(sortind) : sortind[i] = k

\* method="fdr_bh": the step-up values, put back in the caller's order.
fdr_bh(pvals) ==
    LET sortind == ArgSort(pvals, 1..Len(pvals))
        raw == CorrectedRaw(pvals, sortind)
    IN [k \in 1..Len(pvals) |-> ClipToOne(AccumulateFrom(raw, RankOf(sortind, k)))]

\* method="bonferroni": pvals * ntests, clipped to 1.
bonferroni(pvals) ==
    [k \in 1..Len(pvals) |->
        IF IsNaN(pvals[k]) THEN NaN
        ELSE ClipToOne(Rat(pvals[k].n * Len(pvals), pvals[k].d))]

\* multipletests(pvals, method=...)[1], for a batch that is not empty.
multipletests(pvals, method) ==
    IF method = "fdr_bh" THEN fdr_bh(pvals) ELSE bonferroni(pvals)

BHColumn_Bonferroni(pvals) == multipletests(pvals, "bonferroni")

\* The column the scripts add: multipletests(df["p-value"], method="fdr_bh")[1].
BHColumn(pvals) == multipletests(pvals, "fdr_bh")

\* The raw p-values of the batches, in hundredths.
PHundredths == {1, 3, 4, 20, 100}

RECURSIVE SeqsUpTo(_, _)
SeqsUpTo(S, n) ==
    IF n = 0 THEN {<<>>}
    ELSE LET shorter == SeqsUpTo(S, n - 1)
         IN shorter \cup {Append(q, x) : q \in {y \in shorter : Len(y) = n - 1}, x \in S}

Correct ==
    /\ bh_corrected = <<>>
    /\ bh_corrected' = <<BHColumn(bh_pvals)>>
    /\ UNCHANGED <<bh_pvals, splitVars, adjVars, filtVars, geneVars, siteVars, drvVars, pairVars, apiVars>>

InitBH ==
    /\ bh_pvals \in SeqsUpTo({Rat(h, 100) : h \in PHundredths}, MaxTests) \ {<<>>}
    /\ bh_corrected = <<>>
    /\ SplitIdle
    /\ AdjIdle
    /\ FiltIdle
    /\ GeneIdle
    /\ SiteIdle
    /\ DrvIdle
    /\ PairIdle
    /\ ApiIdle

NextBH == Correct

SpecBH == InitBH /\ [][NextBH]_vars

\* ----------------------------------------------------- lrt_bh_correction.py

\* chi2.sf(x, df) and 1 - chi2.cdf(x, df) at the statistics the tables give:
\* 1 at or below zero, NaN when df is not positive, else the tabulated value
\* (to five decimals).
Chi2Sf(x, df) ==
    IF df <= 0 THEN NaN
    ELSE IF x <= 0 THEN Rat(1, 1)
    ELSE CASE df = 1 /\ x = 4 -> Rat(4550, 100000)
           [] df = 1 /\ x = 6 -> Rat(1431, 100000)
           [] df = 1 /\ x = 10 -> Rat(157, 100000)
           [] df = 2 /\ x = 4 -> Rat(13534, 100000)
           [] df = 2 /\ x = 6 -> Rat(4979, 100000)
           [] df = 2 /\ x = 10 -> Rat(674, 100000)
           [] OTHER -> Rat(0, 1)

\* An analysis name is the sequence of its parts: "gX_BS_NULL" is
\* <<"gX", "_BS", "_NULL">>.
AnalysisNames ==
    { <<"M0">>,
      <<"gX", "_B">>, <<"gX", "_BS">>, <<"gX", "_BS", "_NULL">>,
      <<"gY", "_B">> }

\* The log-likelihoods of the tables.
LnLs == {0 - 100, 0 - 95}

\* str.replace(r'(_B|_BS|_BS_NULL)$', '', regex=True) on one name.
StripSuffix(name) ==
    LET n == Len(name)
    IN IF n >= 1 /\ name[n] \in {"_B", "_BS"} THEN SubSeq(name, 1, n - 1)
       ELSE IF n >= 2 /\ name[n - 1] = "_BS" /\ name[n] = "_NULL" THEN SubSeq(name, 1, n - 2)
       ELSE name

\* df["Gene"].unique(): the genes in order of first appearance.
RECURSIVE UniqueGenes(_, _)
UniqueGenes(rows, seen) ==
    IF rows = <<>> THEN <<>>
    ELSE LET g == StripSuffix(Head(rows).Analysis)
         IN IF g \in seen THEN UniqueGenes(Tail(rows), seen)
            ELSE <<g>> \o UniqueGenes(Tail(rows), seen \cup {g})

\* df[df["Analysis"] == name]: the matching rows, in table order.
RowsNamed(rows, name) == SelectSeq(rows, LAMBDA r : r.Analysis = name)

LRTValue_NoDouble(lnL_alt, lnL_null) == lnL_alt - lnL_null

\* 2 * (lnL_alt - lnL_null)
LRTValue(lnL_alt, lnL_null) == 2 * (lnL_alt - lnL_null)

\* The branch-site loop: one row per gene with both its _BS and _BS_NULL rows.
RECURSIVE BranchsiteResults(_, _)
BranchsiteResults(rows, genes) ==
    IF genes = <<>> THEN <<>>
    ELSE LET gene == Head(genes)
             bs_data == RowsNamed(rows, gene \o <<"_BS">>)
             null_data == RowsNamed(rows, gene \o <<"_BS", "_NULL">>)
             rest == BranchsiteResults(rows, Tail(genes))
         IN IF bs_data # <<>> /\ null_data # <<>>
            THEN <<[Gene |-> gene, lnL_BS |-> bs_data[1].lnL, lnL_BS_NULL |-> null_data[1].lnL,
                    LRT |-> LRTValue(bs_data[1].lnL, null_data[1].lnL),
                    p_value |-> Chi2Sf(LRTValue(bs_data[1].lnL, null_data[1].lnL), 1)]>>
                 \o rest
            ELSE rest

\* The branch loop: one row per gene with its _B row, against the M0 row.
RECURSIVE BranchResults(_, _, _)
BranchResults(rows, genes, lnL_m0) ==
    IF genes = <<>> THEN <<>>
    ELSE LET gene == Head(genes)
             branch_data == RowsNamed(rows, gene \o <<"_B">>)
             rest == BranchResults(rows, Tail(genes), lnL_m0)
         IN IF branch_data # <<>>
            THEN <<[Gene |-> gene, lnL_B |-> branch_data[1].lnL, lnL_M0 |-> lnL_m0,
                    LRT |-> LRTValue(branch_data[1].lnL, lnL_m0),
                    p_value |-> Chi2Sf(LRTValue(branch_data[1].lnL, lnL_m0), 1)]>>
                 \o rest
            ELSE rest

\* np.where(FDR_Corrected_P < 0.05, "Yes", "No")
Significant(fdr) == IF ~IsNaN(fdr) /\ RLess(fdr, Rat(5, 100)) THEN "Yes" ELSE "No"

\* The record r with the field k added.
WithField(r, k, v) == [x \in (DOMAIN r) \cup {k} |-> IF x = k THEN v ELSE r[x]]

\* The p_value column of a frame.
PColumn(results) == [i \in 1..Len(results) |-> results[i].p_value]

\* The corrected values are left in the sorted order of the p-values.
WithFDR_Sorted(results) ==
    IF results = <<>> THEN <<>>
    ELSE LET fdr == BHColumn(PColumn(results))
             sortind == ArgSort(PColumn(results), 1..Len(results))
         IN [i \in 1..Len(results) |->
                WithField(WithField(results[i], "FDR_Corrected_P", fdr[sortind[i]]),
                          "Significant", Significant(fdr[sortind[i]]))]

\* The result rows with their FDR_Corrected_P and Significant columns; an
\* empty frame gets no column.
WithFDR(results) ==
    IF results = <<>> THEN <<>>
    ELSE LET fdr == BHColumn(PColumn(results))
         IN [i \in 1..Len(results) |->
                WithField(WithField(results[i], "FDR_Corrected_P", fdr[i]),
                          "Significant", Significant(fdr[i]))]

\* The p_value columns of one sheet of the workbooks in out, one after another.
RECURSIVE SheetPValues(_, _, _)
SheetPValues(out, files, sheet) ==
    IF files = {} THEN <<>>
    ELSE LET f == CHOOSE x \in files : TRUE
         IN PColumn(out[f][sheet]) \o SheetPValues(out, files \ {f}, sheet)

\* The rows corrected together with the p-values prev of the tables before.
WithFDR_Pooled(results, prev) ==
    IF results = <<>> THEN <<>>
    ELSE LET fdr == BHColumn(prev \o PColumn(results))
         IN [i \in 1..Len(results) |->
                WithField(WithField(results[i], "FDR_Corrected_P", fdr[Len(prev) + i]),
                          "Significant", Significant(fdr[Len(prev) + i]))]

\* The result lists are not emptied between two tables.
GeneSheets_PooledAcrossTables(rows) ==
    LET unique_genes == UniqueGenes(rows, {})
        lnL_m0 == RowsNamed(rows, <<"M0">>)[1].lnL
    IN [Branchsite_Model |->
            WithFDR_Pooled(BranchsiteResults(rows, unique_genes),
                           SheetPValues(xlsx_out, DOMAIN xlsx_out, "Branchsite_Model")),
        Branch_Model |->
            WithFDR_Pooled(BranchResults(rows, unique_genes, lnL_m0),
                           SheetPValues(xlsx_out, DOMAIN xlsx_out, "Branch_Model"))]

\* The two sheets of one table that has its columns and its M0 row.
GeneSheets(rows) ==
    LET unique_genes == UniqueGenes(rows, {})
        lnL_m0 == RowsNamed(rows, <<"M0">>)[1].lnL
    IN [Branchsite_Model |-> WithFDR(BranchsiteResults(rows, unique_genes)),
        Branch_Model |-> WithFDR(BranchResults(rows, unique_genes, lnL_m0))]

\* A table read by pd.read_csv: whether it has the Analysis and lnL columns,
\* and its rows.
GeneRows == [Analysis : AnalysisNames, lnL : LnLs]
GeneTables ==
    {[has_cols |-> TRUE, rows |-> r] : r \in SeqsUpTo(GeneRows, MaxRows)}
    \cup {[has_cols |-> FALSE, rows |-> <<>>]}

\* The table of the second gene family of the directory.
OtherTable ==
    [has_cols |-> TRUE,
     rows |-> << [Analysis |-> <<"M0">>, lnL |-> 0 - 100],
                 [Analysis |-> <<"gY", "_BS">>, lnL |-> 0 - 95],
                 [Analysis |-> <<"gY", "_BS", "_NULL">>, lnL |-> 0 - 100],
                 [Analysis |-> <<"gY", "_B">>, lnL |-> 0 - 95],
                 [Analysis |-> <<"gX", "_B">>, lnL |-> 0 - 100] >>]

\* "if not csv_files: ... exit()"
ExitNoCsv ==
    /\ gene_pc = "loop"
    /\ DOMAIN csv_dir = {}
    /\ gene_pc' = "exited"
    /\ UNCHANGED <<csv_dir, csv_todo, xlsx_out>>
    /\ UNCHANGED <<splitVars, adjVars, filtVars, bhVars, siteVars, drvVars, pairVars, apiVars>>

\* One turn of the loop over the CSV files: the table is skipped when it lacks
\* a column or its M0 row; else both tests are run and corrected and the
\* workbook is written. A workbook without any sheet is written empty by one
\* Excel engine and refused, with an exception, by the other.
ProcessCsv ==
    /\ gene_pc = "loop"
    /\ \E filename \in csv_todo :
         LET table == csv_dir[filename]
         IN /\ csv_todo' = csv_todo \ {filename}
            /\ IF ~table.has_cols \/ RowsNamed(table.rows, <<"M0">>) = <<>>
               THEN UNCHANGED <<xlsx_out, gene_pc>>
               ELSE LET sheets == GeneSheets(table.rows)
                    IN IF sheets.Branchsite_Model = <<>> /\ sheets.Branch_Model = <<>>
                       THEN \/ /\ xlsx_out' = Put(xlsx_out, filename, sheets)
                               /\ UNCHANGED gene_pc
                            \/ /\ gene_pc' = "raised"
                               /\ UNCHANGED xlsx_out
                       ELSE /\ xlsx_out' = Put(xlsx_out, filename, sheets)
                            /\ UNCHANGED gene_pc
    /\ UNCHANGED csv_dir
    /\ UNCHANGED <<splitVars, adjVars, filtVars, bhVars, siteVars, drvVars, pairVars, apiVars>>

GeneDone ==
    /\ gene_pc = "loop"
    /\ DOMAIN csv_dir # {}
    /\ csv_todo = {}
    /\ gene_pc' = "done"
    /\ UNCHANGED <<csv_dir, csv_todo, xlsx_out>>
    /\ UNCHANGED <<splitVars, adjVars, filtVars, bhVars, siteVars, drvVars, pairVars, apiVars>>

InitGene ==
    /\ \/ csv_dir = <<>>
       \/ \E t \in GeneTables : csv_dir = [f \in {"a.csv", "b.csv"} |->
                                              IF f = "a.csv" THEN t ELSE OtherTable]
    /\ csv_todo = DOMAIN csv_dir
    /\ xlsx_out = <<>>
    /\ gene_pc = "loop"
    /\ SplitIdle
    /\ AdjIdle
    /\ FiltIdle
    /\ BHIdle
    /\ SiteIdle
    /\ DrvIdle
    /\ PairIdle
    /\ ApiIdle

NextGene == ExitNoCsv \/ ProcessCsv \/ GeneDone

SpecGene == InitGene /\ [][NextGene]_vars

\* -------------------------------------------- lrt_bh_correction.sitemodel.py

\* A model label is "Model <num>" followed by a tail of spaces and colons.
LabelTails == {<<>>, <<":", " ">>, <<" ", ":">>}

\* str.strip() on a label: the whitespace at its end goes (it starts with "M").
RECURSIVE StripSpaces(_)
StripSpaces(tail) ==
    IF tail # <<>> /\ tail[Len(tail)] = " "
    THEN StripSpaces(SubSeq(tail, 1, Len(tail) - 1))
    ELSE tail

\* str.rstrip(":") on a label.
RECURSIVE RStripColons(_)
RStripColons(tail) ==
    IF tail # <<>> /\ tail[Len(tail)] = ":"
    THEN RStripColons(SubSeq(tail, 1, Len(tail) - 1))
    ELSE tail

\* df["Model"].str.strip().str.rstrip(":") on one label.
NormalizeLabel(label) == [num |-> label.num, tail |-> RStripColons(StripSpaces(label.tail))]

\* The literal "Model <num>" of the comparisons list.
ModelLabel(num) == [num |-> num, tail |-> <<>>]

comparisons == <<<<0, 1>>, <<1, 2>>, <<0, 3>>, <<7, 8>>>>

DfDiff_AlwaysOne(np1, np0) == 1

\* df_diff = np1 - np0
DfDiff(np1, np0) == np1 - np0

\* df.loc[df["Model"] == label], after the labels were normalised.
RowsOfModel(rows, label) == SelectSeq(rows, LAMBDA r : NormalizeLabel(r.Model) = label)

\* The loop with the pairs of negative LRT or non-positive df left out.
RECURSIVE SiteResults_DropDegenerate(_, _)
SiteResults_DropDegenerate(rows, i) ==
    IF i > Len(comparisons) THEN <<>>
    ELSE LET null_rows == RowsOfModel(rows, ModelLabel(comparisons[i][1]))
             alt_rows == RowsOfModel(rows, ModelLabel(comparisons[i][2]))
             rest == SiteResults_DropDegenerate(rows, i + 1)
         IN IF null_rows # <<>> /\ alt_rows # <<>>
            THEN LET LRT_stat == 2 * (alt_rows[1].lnL - null_rows[1].lnL)
                     df_diff == DfDiff(alt_rows[1].np, null_rows[1].np)
                 IN IF LRT_stat < 0 \/ df_diff <= 0 THEN rest
                    ELSE <<[Null_Model |-> comparisons[i][1],
                            Alternative_Model |-> comparisons[i][2],
                            LRT_Statistic |-> LRT_stat, df |-> df_diff,
                            p_value |-> Chi2Sf(LRT_stat, df_diff)]>> \o rest
            ELSE rest

\* The comparisons loop from comparison i on.
RECURSIVE SiteResults(_, _)
SiteResults(rows, i) ==
    IF i > Len(comparisons) THEN <<>>
    ELSE LET null_rows == RowsOfModel(rows, ModelLabel(comparisons[i][1]))
             alt_rows == RowsOfModel(rows, ModelLabel(comparisons[i][2]))
             rest == SiteResults(rows, i + 1)
         IN IF null_rows # <<>> /\ alt_rows # <<>>
            THEN LET LRT_stat == 2 * (alt_rows[1].lnL - null_rows[1].lnL)
                     df_diff == DfDiff(alt_rows[1].np, null_rows[1].np)
                 IN <<[Null_Model |-> comparisons[i][1], Alternative_Model |-> comparisons[i][2],
                       LRT_Statistic |-> LRT_stat, df |-> df_diff,
                       p_value |-> Chi2Sf(LRT_stat, df_diff)]>> \o rest
            ELSE rest

\* lrt_df with its "BH-corrected p-value" column.
SiteWithBH(results) ==
    LET bh == BHColumn([i \in 1..Len(results) |-> results[i].p_value])
    IN [i \in 1..Len(results) |->
           [Null_Model |-> results[i].Null_Model,
            Alternative_Model |-> results[i].Alternative_Model,
            LRT_Statistic |-> results[i].LRT_Statistic, df |-> results[i].df,
            p_value |-> results[i].p_value, BH_corrected |-> bh[i]]]

\* The site models a table may hold, and the values of its rows.
SiteModels == {0, 1, 2, 3, 7, 8}
SiteNps == {5, 6}

\* The rows of a table: the models present, each with its lnL and np, in
\* ascending or descending model order, all labels written with the same tail.
RECURSIVE RowsOf(_, _, _)
RowsOf(f, tail, todo) ==
    IF todo = {} THEN <<>>
    ELSE LET k == CHOOSE x \in todo : \A y \in todo : x <= y
         IN <<[Model |-> [num |-> k, tail |-> tail], lnL |-> f[k][1], np |-> f[k][2]]>>
            \o RowsOf(f, tail, todo \ {k})

Reverse(q) == [i \in 1..Len(q) |-> q[Len(q) + 1 - i]]

\* The whole script on the table of sys.argv[1].
RunSiteLRT ==
    /\ site_pc = "start"
    /\ IF ~site_csv.has_cols
       THEN /\ site_pc' = "raised"
            /\ UNCHANGED lrt_results_csv
       ELSE LET lrt_results == SiteResults(site_csv.rows, 1)
            IN IF lrt_results = <<>>
               THEN /\ site_pc' = "exited"
                    /\ UNCHANGED lrt_results_csv
               ELSE /\ lrt_results_csv' = <<SiteWithBH(lrt_results)>>
                    /\ site_pc' = "done"
    /\ UNCHANGED site_csv
    /\ UNCHANGED <<splitVars, adjVars, filtVars, bhVars, geneVars, drvVars, pairVars, apiVars>>

InitSite ==
    /\ \/ site_csv = [has_cols |-> FALSE, rows |-> <<>>]
       \/ \E present \in SUBSET SiteModels, tail \in LabelTails, rev \in BOOLEAN :
            \E f \in [present -> LnLs \X SiteNps] :
               site_csv = [has_cols |-> TRUE,
                           rows |-> IF rev THEN Reverse(RowsOf(f, tail, present))
                                    ELSE RowsOf(f, tail, present)]
    /\ lrt_results_csv = <<>>
    /\ site_pc = "start"
    /\ SplitIdle
    /\ AdjIdle
    /\ FiltIdle
    /\ BHIdle
    /\ GeneIdle
    /\ DrvIdle
    /\ PairIdle
    /\ ApiIdle

NextSite == RunSiteLRT

SpecSite == InitSite /\ [][NextSite]_vars

\* ------------------------------------------- script0.5.py and script8.py

\* The drivers: script0.5.py (GARD, block splitting, filtering), script8.py of
\* the GUI and script8.py of the refined backend (site-model LRT per species).
Drivers == {"script0.5.py", "script8.py", "refined/script8.py"}

\* What the child processes of one item do. For an alignment: whether hyphy
\* gard exits with 0 (and leaves its JSON report) and whether
\* split_recombination_blocks.py does. For a species directory: it has no CSV
\* file, or lrt_bh_correction.sitemodel.py exits with 0 and lrt_results.csv
\* written, with 0 and nothing written, or with another status.
ItemKinds(d) ==
    IF d = "script0.5.py"
    THEN [gard : {"ok", "fail"}, child : {"ok", "fail"}]
    ELSE [gard : {"none"}, child : {"nocsv", "ok", "noout", "fail"}]

\* subprocess.run(cmd, check=True): whether CalledProcessError is raised.
run_raises(item) == item.child = "fail"

\* "if not files: ... sys.exit(1)" of script0.5.py.
NoAlignments ==
    /\ drv = "script0.5.py"
    /\ drv_pc = "gard"
    /\ drv_items = <<>>
    /\ drv_out' = Append(drv_out, [item |-> 0, what |-> "No msa.best.fas files found"])
    /\ drv_pc' = "exited"
    /\ UNCHANGED <<drv, drv_items, drv_gard, drv_json, drv_next, drv_invoked, drv_moved>>
    /\ UNCHANGED <<splitVars, adjVars, filtVars, bhVars, geneVars, siteVars, pairVars, apiVars>>

\* One GARD job of the pool completes: its CalledProcessError is caught and
\* printed; the block after the pool begins once every job is in.
RunGard ==
    /\ drv = "script0.5.py"
    /\ drv_pc = "gard"
    /\ \E i \in drv_gard :
         /\ drv_gard' = drv_gard \ {i}
         /\ IF drv_items[i].gard = "ok"
            THEN /\ drv_json' = drv_json \cup {i}
                 /\ drv_out' = Append(drv_out, [item |-> i, what |-> "Finished"])
            ELSE /\ drv_out' = Append(drv_out, [item |-> i, what |-> "Error running GARD"])
                 /\ UNCHANGED drv_json
         /\ drv_pc' = IF drv_gard \ {i} = {} THEN "loop" ELSE "gard"
    /\ UNCHANGED <<drv, drv_items, drv_next, drv_invoked, drv_moved>>
    /\ UNCHANGED <<splitVars, adjVars, filtVars, bhVars, geneVars, siteVars, pairVars, apiVars>>

\* One turn of "for fas in sorted(MSA_DIR.glob('*.fas'))": the splitter is run
\* with check=True when the report exists; nothing catches its error.
SplitAlignment ==
    /\ drv = "script0.5.py"
    /\ drv_pc = "loop"
    /\ drv_next <= Len(drv_items)
    /\ IF drv_next \in drv_json
       THEN /\ drv_invoked' = drv_invoked \cup {drv_next}
            /\ drv_out' = Append(drv_out, [item |-> drv_next, what |-> "Processing"])
            /\ IF run_raises(drv_items[drv_next])
               THEN drv_pc' = "raised" /\ UNCHANGED drv_next
               ELSE drv_next' = drv_next + 1 /\ UNCHANGED drv_pc
       ELSE /\ drv_out' = Append(drv_out, [item |-> drv_next, what |-> "No JSON found"])
            /\ drv_next' = drv_next + 1
            /\ UNCHANGED <<drv_invoked, drv_pc>>
    /\ UNCHANGED <<drv, drv_items, drv_gard, drv_json, drv_moved>>
    /\ UNCHANGED <<splitVars, adjVars, filtVars, bhVars, geneVars, siteVars, pairVars, apiVars>>

\* run(['python3', 'filter_blocks.py']) after the loop, with check=True.
FilterStep ==
    /\ drv = "script0.5.py"
    /\ drv_pc = "loop"
    /\ drv_next > Len(drv_items)
    /\ \E exit_status \in {0, 1} :
         IF exit_status = 0
         THEN /\ drv_out' = Append(drv_out, [item |-> 0, what |-> "Filtering done"])
              /\ drv_pc' = "done"
         ELSE /\ drv_pc' = "raised"
              /\ UNCHANGED drv_out
    /\ UNCHANGED <<drv, drv_items, drv_gard, drv_json, drv_next, drv_invoked, drv_moved>>
    /\ UNCHANGED <<splitVars, adjVars, filtVars, bhVars, geneVars, siteVars, pairVars, apiVars>>

\* One turn of the loop over the species directories of script8.py. The GUI
\* script runs the child with check=True and catches nothing; the refined one
\* catches CalledProcessError, reports the species and goes on.
SpeciesStep ==
    /\ drv \in {"script8.py", "refined/script8.py"}
    /\ drv_pc = "loop"
    /\ drv_next <= Len(drv_items)
    /\ LET item == drv_items[drv_next]
       IN IF item.child = "nocsv"
          THEN /\ drv_out' = Append(drv_out, [item |-> drv_next, what |-> "No CSV file found"])
               /\ drv_next' = drv_next + 1
               /\ UNCHANGED <<drv_invoked, drv_moved, drv_pc>>
          ELSE /\ drv_invoked' = drv_invoked \cup {drv_next}
               /\ IF run_raises(item)
                  THEN IF drv = "refined/script8.py"
                       THEN /\ drv_out' = drv_out \o
                                    <<[item |-> drv_next, what |-> "Processing"],
                                      [item |-> drv_next, what |-> "BH correction failed"]>>
                            /\ drv_next' = drv_next + 1
                            /\ UNCHANGED <<drv_moved, drv_pc>>
                       ELSE /\ drv_out' = Append(drv_out,
                                                 [item |-> drv_next, what |-> "Processing"])
                            /\ drv_pc' = "raised"
                            /\ UNCHANGED <<drv_moved, drv_next>>
                  ELSE /\ IF item.child = "ok"
                          THEN /\ drv_moved' = drv_moved \cup {drv_next}
                               /\ drv_out' = Append(drv_out,
                                                    [item |-> drv_next, what |-> "Processing"])
                          ELSE /\ drv_out' = drv_out \o
                                       <<[item |-> drv_next, what |-> "Processing"],
                                         [item |-> drv_next,
                                          what |-> "Error: No output file generated"]>>
                               /\ UNCHANGED drv_moved
                       /\ drv_next' = drv_next + 1
                       /\ UNCHANGED drv_pc
    /\ UNCHANGED <<drv, drv_items, drv_gard, drv_json>>
    /\ UNCHANGED <<splitVars, adjVars, filtVars, bhVars, geneVars, siteVars, pairVars, apiVars>>

\* The loop of script8.py is over.
SpeciesDone ==
    /\ drv \in {"script8.py", "refined/script8.py"}
    /\ drv_pc = "loop"
    /\ drv_next > Len(drv_items)
    /\ drv_pc' = "done"
    /\ UNCHANGED <<drv, drv_items, drv_gard, drv_json, drv_next, drv_invoked, drv_moved,
                   drv_out>>
    /\ UNCHANGED <<splitVars, adjVars, filtVars, bhVars, geneVars, siteVars, pairVars, apiVars>>

InitDriver ==
    /\ drv \in Drivers
    /\ drv_items \in SeqsUpTo(ItemKinds(drv), MaxItems)
    /\ drv_gard = IF drv = "script0.5.py" THEN 1..Len(drv_items) ELSE {}
    /\ drv_json = {}
    /\ drv_next = 1
    /\ drv_invoked = {}
    /\ drv_moved = {}
    /\ drv_out = <<>>
    /\ drv_pc = IF drv = "script0.5.py" THEN "gard" ELSE "loop"
    /\ SplitIdle
    /\ AdjIdle
    /\ FiltIdle
    /\ BHIdle
    /\ GeneIdle
    /\ SiteIdle
    /\ PairIdle
    /\ ApiIdle

NextDriver ==
    NoAlignments \/ RunGard \/ SplitAlignment \/ FilterStep \/ SpeciesStep \/ SpeciesDone

SpecDriver == InitDriver /\ [][NextDriver]_vars

\* ------------------------------------------- two invocations side by side

\* The base names of the alignments under msa/, as their "."-separated parts.
FastaBases ==
    { <<"orgA", "g1", "msa", "best", "fas">>,
      <<"orgA", "g2", "msa", "best", "fas">>,
      <<"orgB", "g1", "msa", "best", "fas">> }

\* organism = fasta_base.split(".")[0]
Organism(fasta_base) == fasta_base[1]

\* The reports of the alignments: one or two well-formed ranges over 2 sites.
PairBps ==
    {b \in BpsLists :
        /\ b # <<>>
        /\ \A k \in 1..Len(b) : Len(b[k]) = 2 /\ b[k][1] <= b[k][2] /\ b[k][2] <= 2}

\* The inputs of split_by_gard_json: an alignment of 6 nt and its report,
\* which counts 2 sites (scale 3) or 6 sites (scale 1).
SplitInputs ==
    {[tool |-> "split", name |-> f, len |-> 6,
      gard |-> [bps |-> b, input |-> [t |-> "int", v |-> n]], rows |-> <<>>] :
        f \in FastaBases, b \in PairBps, n \in {2, 6}}

\* The tables of sitemodelanalysis/<species>/, one per species.
SiteInputs ==
    {[tool |-> "site", name |-> <<sp>>, len |-> 0,
      gard |-> [bps |-> <<>>, input |-> [t |-> "absent", v |-> 0]],
      rows |-> RowsOf([k \in {0, 3} |->
                          IF k = 0 THEN <<0 - 100, 5>>
                          ELSE IF sp = "orgA" THEN <<0 - 95, 6>> ELSE <<0 - 100, 6>>],
                      <<>>, {0, 3})] :
        sp \in {"orgA", "orgB"}}

\* org_dir/split_recombination_blocks.log
LogFile(fasta_base) ==
    [kind |-> "log", dir |-> <<"recombination_blocks", Organism(fasta_base)>>,
     base |-> <<>>, idx |-> 0, cs |-> 0, ce |-> 0]

\* org_dir/{fasta_base}.gard_block{idx}_{cs}-{ce}.fas
BlockFile(fasta_base, idx, cs, ce) ==
    [kind |-> "block", dir |-> <<"recombination_blocks", Organism(fasta_base)>>,
     base |-> fasta_base, idx |-> idx, cs |-> cs, ce |-> ce]

\* lrt_results.csv in the working directory.
CwdResults ==
    [kind |-> "csv", dir |-> <<>>, base |-> <<>>, idx |-> 0, cs |-> 0, ce |-> 0]

\* BHanalysis4sitemodel/<species>/lrt_results.csv
MovedResults(species) ==
    [kind |-> "csv", dir |-> <<"BHanalysis4sitemodel", species>>,
     base |-> <<>>, idx |-> 0, cs |-> 0, ce |-> 0]

\* The lines of a file after a handle opened at its start has written "new".
Overlay(old, new) ==
    [k \in 1..Max(Len(old), Len(new)) |-> IF k <= Len(new) THEN new[k] ELSE old[k]]

\* Invocation i may take a step: always when the invocations run side by
\* side, and only while the other one is not under way when they run in turn.
Turn(i) ==
    par_serial => \A j \in (DOMAIN par_inv) \ {i} : par_inv[j].pc \in {"idle", "done"}

\* split_by_gard_json up to the header: the alignment and the report are
\* loaded, the ranges converted, the log opened with "w" (the file is cut to
\* nothing) and the header handed to the buffered handle.
SplitOpen(i) ==
    /\ par_inv[i].pc = "idle"
    /\ par_inv[i].in.tool = "split"
    /\ Turn(i)
    /\ LET in == par_inv[i].in
           sc == infer_scale_factor(in.len, in.gard)
           rows == ConvertBlocks(read_blocks_from_breakpointData(in.gard), sc, in.len)
       IN /\ par_inv' = [par_inv EXCEPT ![i].pc = "emit",
                                        ![i].nt_blocks = rows,
                                        ![i].buf = <<[kind |-> "header", src |-> in.name,
                                                      idx |-> 0,
                                                      info |-> <<in.len, sc, rows>>]>>]
          /\ par_fs' = Put(par_fs, LogFile(in.name), [lines |-> <<>>])
    /\ UNCHANGED par_serial
    /\ UNCHANGED <<splitVars, adjVars, filtVars, bhVars, geneVars, siteVars, drvVars, apiVars>>

\* One turn of the emit loop: the skip notice, or the block file and its
\* "Saved block" lines.
SplitEmit(i) ==
    /\ par_inv[i].pc = "emit"
    /\ Turn(i)
    /\ Len(par_inv[i].buf) <= Len(par_inv[i].nt_blocks)
    /\ LET in == par_inv[i].in
           idx == Len(par_inv[i].buf)
           b == par_inv[i].nt_blocks[idx]
       IN IF (b[4] - b[3] + 1) < 3
          THEN /\ par_inv' = [par_inv EXCEPT ![i].buf =
                                 Append(@, [kind |-> "skipped", src |-> <<>>, idx |-> idx,
                                            info |-> <<>>])]
               /\ UNCHANGED par_fs
          ELSE /\ par_fs' = Put(par_fs, BlockFile(in.name, idx, b[1], b[2]),
                                [src |-> in.name, snt |-> b[3], ent |-> b[4]])
               /\ par_inv' = [par_inv EXCEPT ![i].buf =
                                 Append(@, [kind |-> "saved", src |-> in.name, idx |-> idx,
                                            info |-> <<b[5], b[6]>>])]
    /\ UNCHANGED par_serial
    /\ UNCHANGED <<splitVars, adjVars, filtVars, bhVars, geneVars, siteVars, drvVars, apiVars>>

\* The end of the "with" block: the handle writes what it buffered, from the
\* start of the file on, and is closed.
SplitClose(i) ==
    /\ par_inv[i].pc = "emit"
    /\ Turn(i)
    /\ Len(par_inv[i].buf) = Len(par_inv[i].nt_blocks) + 1
    /\ LET f == LogFile(par_inv[i].in.name)
       IN par_fs' = Put(par_fs, f, [lines |-> Overlay(par_fs[f].lines, par_inv[i].buf)])
    /\ par_inv' = [par_inv EXCEPT ![i].pc = "done"]
    /\ UNCHANGED par_serial
    /\ UNCHANGED <<splitVars, adjVars, filtVars, bhVars, geneVars, siteVars, drvVars, apiVars>>

\* lrt_bh_correction.sitemodel.py on the table of one species: the results
\* go to lrt_results.csv in the working directory.
SiteWrite(i) ==
    /\ par_inv[i].pc = "idle"
    /\ par_inv[i].in.tool = "site"
    /\ Turn(i)
    /\ par_fs' = Put(par_fs, CwdResults,
                     [rows |-> SiteWithBH(SiteResults(par_inv[i].in.rows, 1))])
    /\ par_inv' = [par_inv EXCEPT ![i].pc = "written"]
    /\ UNCHANGED par_serial
    /\ UNCHANGED <<splitVars, adjVars, filtVars, bhVars, geneVars, siteVars, drvVars, apiVars>>

\* script8.py after the child has ended: lrt_results.csv is moved to the
\* folder of the species when it exists, and an error is printed when not.
SiteMove(i) ==
    /\ par_inv[i].pc = "written"
    /\ Turn(i)
    /\ IF CwdResults \in DOMAIN par_fs
       THEN /\ par_fs' = Put(Drop(par_fs, CwdResults),
                             MovedResults(par_inv[i].in.name[1]), par_fs[CwdResults])
            /\ par_inv' = [par_inv EXCEPT ![i].pc = "done"]
       ELSE /\ par_inv' = [par_inv EXCEPT ![i].pc = "done",
                                          ![i].buf = <<"Error: No output file generated">>]
            /\ UNCHANGED par_fs
    /\ UNCHANGED par_serial
    /\ UNCHANGED <<splitVars, adjVars, filtVars, bhVars, geneVars, siteVars, drvVars, apiVars>>

InitPair ==
    /\ par_serial \in BOOLEAN
    /\ \E a, b \in SplitInputs \cup SiteInputs :
          /\ a.tool = b.tool
          /\ a.name # b.name
          /\ par_inv = [i \in 1..2 |->
                           [in |-> IF i = 1 THEN a ELSE b, pc |-> "idle",
                            nt_blocks |-> <<>>, buf |-> <<>>]]
    /\ par_fs = <<>>
    /\ SplitIdle
    /\ AdjIdle
    /\ FiltIdle
    /\ BHIdle
    /\ GeneIdle
    /\ SiteIdle
    /\ DrvIdle
    /\ ApiIdle

NextPair ==
    \E i \in 1..2 :
        SplitOpen(i) \/ SplitEmit(i) \/ SplitClose(i) \/ SiteWrite(i) \/ SiteMove(i)

SpecPair == InitPair /\ [][NextPair]_vars

\* ----------------------------------------------- main_api.py: /run, /stream

\* The runner scripts a model name stands for: babappa_clip.py, the
\* babappa_clipgard.py next to the refined main_api.py, and the
\* babappa_clipgard.py of BABAPPA_GUI.
Runners == {"babappa_clip.py", "refined/babappa_clipgard.py", "babappa_clipgard.py"}

\* The scripts of the pipeline in their listed order (the first and the last),
\* and the sub-folder each of them makes in the working directory.
scripts == <<"script0", "script8">>
GenDir == <<"msa", "BHanalysis4sitemodel">>

\* fasta_file.filename of the upload of each job.
FastaOf(j) == IF j = 1 THEN <<"a", "fasta">> ELSE <<"b", "fasta">>

\* The name of a file of the model folder, as <<stem, suffix>>.
MasterLog == <<"master_log", "txt">>

\* The bytes no handle has written, before a line written past the end.
Hole == [job |-> 0, script |-> "", n |-> 0]

\* The lines of a file after a handle that stands behind "off" lines has
\* written one line.
WriteAt(lines, off, line) ==
    [k \in 1..Max(Len(lines), off + 1) |->
        IF k = off + 1 THEN line ELSE IF k <= Len(lines) THEN lines[k] ELSE Hole]

\* The files of a sub-folder (none when it does not exist).
FilesOf(dirs, d) == IF d \in DOMAIN dirs THEN dirs[d] ELSE <<>>

\* The sub-folders with file f of sub-folder d holding "lines".
DirPut(dirs, d, f, lines) == Put(dirs, d, Put(FilesOf(dirs, d), f, lines))

\* The jobs whose data a file of the model folder holds (none when it does
\* not exist).
WritersOf(files, f) == IF f \in DOMAIN files THEN files[f] ELSE {}

\* The runner writes the log of each script to logs/<script>.log; the runner
\* of BABAPPA_GUI writes every line to master_log.txt instead.
UsesLogsDir == api_model # "babappa_clipgard.py"

Closed == [at |-> "closed", to |-> 0]

\* The handles on the files of the model folder, after its sub-folders were
\* moved to the output folder of job j (renamed: the handles follow the
\* files; copied and deleted: what they write is lost) or were removed.
Retarget(jobs, at, to) ==
    [i \in DOMAIN jobs |->
        IF jobs[i].fd.at = "model" THEN [jobs[i] EXCEPT !.fd = [at |-> at, to |-> to]]
        ELSE jobs[i]]

\* POST /run: the job is registered as running, the upload is saved in the
\* model folder and the thread of run_script is started.
run_model(j) ==
    /\ api_jobs[j].pc = "new"
    /\ api_jobs' = [api_jobs EXCEPT ![j].status = "running", ![j].pc = "spawned"]
    /\ mf_files' = Put(mf_files, FastaOf(j), {j})
    /\ UNCHANGED <<api_model, mf_dirs, api_out, file_positions, str_out, str_pc>>
    /\ UNCHANGED <<splitVars, adjVars, filtVars, bhVars, geneVars, siteVars, drvVars, pairVars>>

\* The runner starts: logs_dir.mkdir(exist_ok=True), or master_log.txt is
\* opened with "w" for its first line.
RunnerStart(j) ==
    /\ api_jobs[j].pc = "spawned"
    /\ api_jobs' = [api_jobs EXCEPT ![j].pc = "running", ![j].k = 1]
    /\ IF UsesLogsDir
       THEN /\ mf_dirs' = Put(mf_dirs, "logs", FilesOf(mf_dirs, "logs"))
            /\ UNCHANGED mf_files
       ELSE /\ mf_files' = Put(mf_files, MasterLog, {j})
            /\ UNCHANGED mf_dirs
    /\ UNCHANGED <<api_model, api_out, file_positions, str_out, str_pc>>
    /\ UNCHANGED <<splitVars, adjVars, filtVars, bhVars, geneVars, siteVars, drvVars, pairVars>>

\* run_script(script) begins: the log of the script is opened with "w" (an
\* uncaught error ends the runner when logs/ is gone) and the child starts,
\* making its sub-folder.
RunnerOpen(j) ==
    /\ api_jobs[j].pc = "running"
    /\ api_jobs[j].fd = Closed
    /\ LET k == api_jobs[j].k
           made == DirPut(mf_dirs, GenDir[k], FastaOf(j),
                          <<[job |-> j, script |-> scripts[k], n |-> 1]>>)
       IN IF UsesLogsDir
          THEN IF "logs" \notin DOMAIN mf_dirs
               THEN /\ api_jobs' = [api_jobs EXCEPT ![j].pc = "exited", ![j].rc = 1]
                    /\ UNCHANGED <<mf_dirs, mf_files>>
               ELSE /\ mf_dirs' = DirPut(made, "logs", scripts[k], <<>>)
                    /\ api_jobs' = [api_jobs EXCEPT ![j].fd = [at |-> "model", to |-> 0],
                                                    ![j].off = 0]
                    /\ UNCHANGED mf_files
          ELSE /\ mf_files' = Put(mf_files, MasterLog, WritersOf(mf_files, MasterLog) \cup {j})
               /\ mf_dirs' = made
               /\ api_jobs' = [api_jobs EXCEPT ![j].fd = [at |-> "pipe", to |-> 0],
                                               ![j].off = 0]
    /\ UNCHANGED <<api_model, api_out, file_positions, str_out, str_pc>>
    /\ UNCHANGED <<splitVars, adjVars, filtVars, bhVars, geneVars, siteVars, drvVars, pairVars>>

\* The child writes one line to its standard output: to the log it was
\* handed, wherever that file is now, or through the pipe to master_log.txt
\* (the runner opens it with "a" for every line).
ChildWrite(j) ==
    /\ api_jobs[j].fd # Closed
    /\ api_jobs[j].off < MaxLines
    /\ LET fd == api_jobs[j].fd
           off == api_jobs[j].off
           name == scripts[api_jobs[j].k]
           line == [job |-> j, script |-> name, n |-> off + 1]
       IN CASE fd.at = "model" ->
                 /\ mf_dirs' = DirPut(mf_dirs, "logs", name,
                                      WriteAt(mf_dirs["logs"][name], off, line))
                 /\ UNCHANGED <<mf_files, api_out>>
            [] fd.at = "moved" ->
                 /\ api_out' = [api_out EXCEPT ![fd.to] =
                                   DirPut(@, "logs", name, WriteAt(@["logs"][name], off, line))]
                 /\ UNCHANGED <<mf_files, mf_dirs>>
            [] fd.at = "lost" ->
                 UNCHANGED <<mf_files, mf_dirs, api_out>>
            [] fd.at = "pipe" ->
                 /\ mf_files' = Put(mf_files, MasterLog, WritersOf(mf_files, MasterLog) \cup {j})
                 /\ UNCHANGED <<mf_dirs, api_out>>
    /\ api_jobs' = [api_jobs EXCEPT ![j].off = @ + 1]
    /\ UNCHANGED <<api_model, file_positions, str_out, str_pc>>
    /\ UNCHANGED <<splitVars, adjVars, filtVars, bhVars, geneVars, siteVars, drvVars, pairVars>>

\* The runner after the child of script k has exited with "code": it goes
\* on to the next script, or ends with the exit code rc.
GoOn == [on |-> TRUE, rc |-> 0]
EndWith(rc) == [on |-> FALSE, rc |-> rc]
AfterScript(k, code) ==
    CASE api_model = "babappa_clip.py" ->
            IF code # 0 THEN EndWith(1) ELSE IF k = Len(scripts) THEN EndWith(0) ELSE GoOn
      [] api_model = "refined/babappa_clipgard.py" ->
            IF code # 0 THEN EndWith(0) ELSE IF k = Len(scripts) THEN EndWith(0) ELSE GoOn
      [] api_model = "babappa_clipgard.py" ->
            IF k = Len(scripts) THEN EndWith(0) ELSE GoOn

\* The child exits with a code and the runner takes it from there.
ChildExit(j) ==
    /\ api_jobs[j].fd # Closed
    /\ \E code \in {0, 1} :
         LET k == api_jobs[j].k
             then == AfterScript(k, code)
             st == [api_jobs[j] EXCEPT !.fd = Closed, !.codes = Append(@, code)]
         IN api_jobs' = [api_jobs EXCEPT ![j] =
                            IF then.on THEN [st EXCEPT !.k = k + 1]
                            ELSE [st EXCEPT !.pc = "exited", !.rc = then.rc]]
    /\ IF UsesLogsDir
       THEN UNCHANGED mf_files
       ELSE mf_files' = Put(mf_files, MasterLog, WritersOf(mf_files, MasterLog) \cup {j})
    /\ UNCHANGED <<api_model, mf_dirs, api_out, file_positions, str_out, str_pc>>
    /\ UNCHANGED <<splitVars, adjVars, filtVars, bhVars, geneVars, siteVars, drvVars, pairVars>>

\* run_script of the job thread: process.wait() has returned a non-zero code.
Fail(j) ==
    /\ api_jobs[j].pc = "exited"
    /\ api_jobs[j].rc # 0
    /\ api_jobs' = [api_jobs EXCEPT ![j].status = "failed", ![j].pc = "end"]
    /\ UNCHANGED <<api_model, mf_files, mf_dirs, api_out, file_positions, str_out, str_pc>>
    /\ UNCHANGED <<splitVars, adjVars, filtVars, bhVars, geneVars, siteVars, drvVars, pairVars>>

\* move_generated_subfolders: every sub-folder of the model folder goes to
\* output_folder/model/job_id.
move_generated_subfolders(j) ==
    /\ api_jobs[j].pc = "exited"
    /\ api_jobs[j].rc = 0
    /\ api_out' = [api_out EXCEPT ![j] = mf_dirs]
    /\ mf_dirs' = <<>>
    /\ \E renamed \in BOOLEAN :
         api_jobs' = [Retarget(api_jobs, IF renamed THEN "moved" ELSE "lost", j)
                         EXCEPT ![j].pc = "moved"]
    /\ UNCHANGED <<api_model, mf_files, file_positions, str_out, str_pc>>
    /\ UNCHANGED <<splitVars, adjVars, filtVars, bhVars, geneVars, siteVars, drvVars, pairVars>>

\* fasta_path.unlink() and clean_model_folder: the sub-folders are removed
\* and so is every file whose suffix is neither .py nor .ctl.
clean_model_folder(j) ==
    /\ api_jobs[j].pc = "moved"
    /\ mf_dirs' = <<>>
    /\ mf_files' = [f \in {g \in DOMAIN mf_files : g[2] \in {"py", "ctl"}} |-> mf_files[f]]
    /\ api_jobs' = [Retarget(api_jobs, "lost", j) EXCEPT ![j].pc = "cleaned"]
    /\ UNCHANGED <<api_model, api_out, file_positions, str_out, str_pc>>
    /\ UNCHANGED <<splitVars, adjVars, filtVars, bhVars, geneVars, siteVars, drvVars, pairVars>>

\* RUN_STATUS[job_id]["status"] = "finished"
Finish(j) ==
    /\ api_jobs[j].pc = "cleaned"
    /\ api_jobs' = [api_jobs EXCEPT ![j].status = "finished", ![j].pc = "end"]
    /\ UNCHANGED <<api_model, mf_files, mf_dirs, api_out, file_positions, str_out, str_pc>>
    /\ UNCHANGED <<splitVars, adjVars, filtVars, bhVars, geneVars, siteVars, drvVars, pairVars>>

\* The events of one pass over the files of file_positions, from script k on:
\* the lines of each file that exists, from its position to its end.
RECURSIVE TailFrom(_, _)
TailFrom(k, pos) ==
    IF k > Len(scripts) THEN <<>>
    ELSE LET f == scripts[k]
             logs == FilesOf(mf_dirs, "logs")
         IN (IF f \in DOMAIN pos /\ f \in DOMAIN logs /\ pos[f] < Len(logs[f])
             THEN [i \in 1..(Len(logs[f]) - pos[f]) |->
                      [file |-> f, line |-> logs[f][pos[f] + i]]]
             ELSE <<>>)
            \o TailFrom(k + 1, pos)

\* event_generator, the first half of a turn: logs/*.log is scanned again
\* and every known file is tailed from its position.
StreamPoll ==
    /\ str_pc = "poll"
    /\ LET logs == FilesOf(mf_dirs, "logs")
           scanned == [f \in (DOMAIN file_positions) \cup (DOMAIN logs) |->
                          IF f \in DOMAIN file_positions THEN file_positions[f] ELSE 0]
       IN /\ str_out' = str_out \o TailFrom(1, scanned)
          /\ file_positions' = [f \in DOMAIN scanned |->
                                   IF f \in DOMAIN logs THEN Max(scanned[f], Len(logs[f]))
                                   ELSE scanned[f]]
    /\ str_pc' = "check"
    /\ UNCHANGED <<api_model, api_jobs, mf_files, mf_dirs, api_out>>
    /\ UNCHANGED <<splitVars, adjVars, filtVars, bhVars, geneVars, siteVars, drvVars, pairVars>>

\* event_generator, the second half: on a terminal status the known files
\* are read to their end, the status is sent and the stream ends; else a
\* heartbeat is sent and the generator sleeps.
StreamCheck ==
    /\ str_pc = "check"
    /\ IF api_jobs[1].status \in {"finished", "failed"}
       THEN /\ str_out' = str_out \o TailFrom(1, file_positions)
                             \o <<[file |-> "__status__", line |-> api_jobs[1].status]>>
            /\ str_pc' = "end"
       ELSE /\ str_pc' = "poll"
            /\ UNCHANGED str_out
    /\ UNCHANGED <<api_model, api_jobs, mf_files, mf_dirs, api_out, file_positions>>
    /\ UNCHANGED <<splitVars, adjVars, filtVars, bhVars, geneVars, siteVars, drvVars, pairVars>>

\* A job before POST /run.
NewJob ==
    [status |-> "none", pc |-> "new", k |-> 0, fd |-> Closed, off |-> 0, codes |-> <<>>,
     rc |-> 0]

\* Either one job that was just submitted, with a client connected to its
\* stream (stream_logs has made logs/), or two jobs about to be submitted for
\* the same model.
InitApi ==
    /\ api_model \in Runners
    /\ \/ /\ api_jobs = <<[NewJob EXCEPT !.status = "running", !.pc = "spawned"]>>
          /\ mf_files = Put(<<>>, FastaOf(1), {1})
          /\ mf_dirs = Put(<<>>, "logs", <<>>)
          /\ api_out = <<<<>>>>
          /\ str_pc = "poll"
       \/ /\ api_jobs = <<NewJob, NewJob>>
          /\ mf_files = <<>>
          /\ mf_dirs = <<>>
          /\ api_out = <<<<>>, <<>>>>
          /\ str_pc = "off"
    /\ file_positions = <<>>
    /\ str_out = <<>>
    /\ SplitIdle
    /\ AdjIdle
    /\ FiltIdle
    /\ BHIdle
    /\ GeneIdle
    /\ SiteIdle
    /\ DrvIdle
    /\ PairIdle

NextApi ==
    \/ \E j \in DOMAIN api_jobs : run_model(j)
    \/ \E j \in DOMAIN api_jobs : RunnerStart(j)
    \/ \E j \in DOMAIN api_jobs : RunnerOpen(j)
    \/ \E j \in DOMAIN api_jobs : ChildWrite(j)
    \/ \E j \in DOMAIN api_jobs : ChildExit(j)
    \/ \E j \in DOMAIN api_jobs : Fail(j)
    \/ \E j \in DOMAIN api_jobs : move_generated_subfolders(j)
    \/ \E j \in DOMAIN api_jobs : clean_model_folder(j)
    \/ \E j \in DOMAIN api_jobs : Finish(j)
    \/ StreamPoll
    \/ StreamCheck

SpecApi == InitApi /\ [][NextApi]_vars

\* ------------------------------------------------------------------ claims

\* C1: every block file written by split_by_gard_json has a nucleotide length
\* (adjusted_end - adjusted_start + 1) that is a multiple of 3.
C1_BlockLengthMultipleOf3 ==
    \A f \in out_files : (f.ent - f.snt + 1) % 3 = 0

\* Whether a sequence has TAA, TAG or TGA, in either case, at an offset 3k.
InFrameStop(seq) ==
    \E k \in 0..(Len(seq) \div 3) :
        /\ 3 * k + 3 <= Len(seq)
        /\ <<Upper(seq[3 * k + 1]), Upper(seq[3 * k + 2]), Upper(seq[3 * k + 3])>>
              \in {<<"T", "A", "A">>, <<"T", "A", "G">>, <<"T", "G", "A">>}

\* C2: once main() has gone over the tree, no .fas file left under
\* recombination_blocks/ has a sequence with TAA, TAG or TGA (in either case)
\* at an offset 3k, the last codon included.
C2_KeptBlocksHaveNoStop ==
    filt_pc = "done" =>
        \A path \in DOMAIN blocks_fs :
            path.ext = ".fas" =>
                \A i \in 1..Len(blocks_fs[path].recs) : ~InFrameStop(blocks_fs[path].recs[i].seq)

\* A finished run that kept a block with records and discarded one whose only
\* stop codon is its last codon, written in lower case.
C2_Witness ==
    /\ filt_pc = "done"
    /\ \E path \in DOMAIN blocks_fs : path.ext = ".fas" /\ blocks_fs[path].recs # <<>>
    /\ \E d \in DOMAIN discard_fs :
         \E i \in 1..Len(discard_fs[d].recs) :
             discard_fs[d].recs[i].seq = <<"A", "T", "G", "t", "g", "a">>

\* The p-values of a batch that are smaller than x, and not larger than x.
CountLess(pvals, x) == Cardinality({i \in 1..Len(pvals) : RLess(pvals[i], x)})
CountLeq(pvals, x) == Cardinality({i \in 1..Len(pvals) : ~RLess(x, pvals[i])})

\* The p-value of ascending rank j (1-indexed).
AtRank(pvals, j) ==
    LET k == CHOOSE i \in 1..Len(pvals) :
                 CountLess(pvals, pvals[i]) < j /\ j <= CountLeq(pvals, pvals[i])
    IN pvals[k]

\* p_j * m / j
StepUp(pvals, j) == Rat(AtRank(pvals, j).n * Len(pvals), AtRank(pvals, j).d * j)

\* Whether adj is, for every p-value of the batch and every rank i it may
\* take, the minimum over the ranks j >= i of p_j * m / j.
IsStepUpMinimum(pvals, adj) ==
    /\ DOMAIN adj = 1..Len(pvals)
    /\ \A k \in 1..Len(pvals) :
         \A i \in (CountLess(pvals, pvals[k]) + 1)..CountLeq(pvals, pvals[k]) :
             /\ \E j \in i..Len(pvals) : adj[k] = StepUp(pvals, j)
             /\ \A j \in i..Len(pvals) : ~RLess(StepUp(pvals, j), adj[k])

\* C3: the adjusted value of the p-value of rank i is the minimum over the
\* ranks j >= i of p_j * m / j; the largest p-value comes back unchanged; and
\* [0.01, 0.04, 0.03, 0.20] gives [0.04, 0.16/3, 0.16/3, 0.20] in that order.
C3_StepUpMinimum ==
    bh_corrected # <<>> =>
        LET m == Len(bh_pvals)
            adj == bh_corrected[1]
        IN /\ IsStepUpMinimum(bh_pvals, adj)
           /\ \A k \in 1..m :
                CountLeq(bh_pvals, bh_pvals[k]) = m => adj[k] = bh_pvals[k]
           /\ bh_pvals = <<Rat(1, 100), Rat(4, 100), Rat(3, 100), Rat(20, 100)>> =>
                adj = <<Rat(4, 100), Rat(16, 300), Rat(16, 300), Rat(20, 100)>>

\* The batch [0.01, 0.04, 0.03, 0.20] has been corrected.
C3_Witness ==
    /\ bh_pvals = <<Rat(1, 100), Rat(4, 100), Rat(3, 100), Rat(20, 100)>>
    /\ bh_corrected # <<>>

\* The FDR_Corrected_P column of a sheet.
FDRColumn(sheet) == [i \in 1..Len(sheet) |-> sheet[i].FDR_Corrected_P]

\* The genes of a table that have both rows of the branch-site test, and
\* those that have the row of the branch test.
GenesOf(rows) == {StripSuffix(rows[i].Analysis) : i \in 1..Len(rows)}
HasRow(rows, name) == \E i \in 1..Len(rows) : rows[i].Analysis = name
BranchsiteGenes(rows) ==
    {g \in GenesOf(rows) : HasRow(rows, g \o <<"_BS">>) /\ HasRow(rows, g \o <<"_BS", "_NULL">>)}
BranchGenes(rows) == {g \in GenesOf(rows) : HasRow(rows, g \o <<"_B">>)}

FirstLnL(rows, name) ==
    rows[CHOOSE i \in 1..Len(rows) :
             rows[i].Analysis = name /\ \A j \in 1..(i - 1) : rows[j].Analysis # name].lnL

\* C5: every per-gene result has LRT = 2 * (lnL_alt - lnL_null), with
\* ({gene}_BS, {gene}_BS_NULL) for the branch-site test and ({gene}_B, M0) for
\* the branch test, and a p-value at 1 degree of freedom; M0 at -100.0 and
\* gX_B at -95.0 give LRT = 10.0.
C5_PerGeneStatistic ==
    \A f \in DOMAIN xlsx_out :
        LET rows == csv_dir[f].rows
            bs == xlsx_out[f].Branchsite_Model
            b == xlsx_out[f].Branch_Model
        IN /\ \A i \in 1..Len(bs) :
                /\ bs[i].LRT = 2 * (FirstLnL(rows, bs[i].Gene \o <<"_BS">>)
                                    - FirstLnL(rows, bs[i].Gene \o <<"_BS", "_NULL">>))
                /\ bs[i].p_value = Chi2Sf(bs[i].LRT, 1)
           /\ \A i \in 1..Len(b) :
                /\ b[i].LRT = 2 * (FirstLnL(rows, b[i].Gene \o <<"_B">>) - FirstLnL(rows, <<"M0">>))
                /\ b[i].p_value = Chi2Sf(b[i].LRT, 1)
                /\ (b[i].lnL_M0 = 0 - 100 /\ b[i].lnL_B = 0 - 95) => b[i].LRT = 10

\* A workbook with the branch result of M0 at -100 and gX_B at -95, which is
\* 10, and a workbook with a branch-site result that is not 0.
C5_Witness ==
    /\ \E f \in DOMAIN xlsx_out :
          \E i \in 1..Len(xlsx_out[f].Branch_Model) :
              LET r == xlsx_out[f].Branch_Model[i]
              IN /\ r.Gene = <<"gX">>
                 /\ r.lnL_M0 = 0 - 100
                 /\ r.lnL_B = 0 - 95
                 /\ r.LRT = 10
    /\ \E f \in DOMAIN xlsx_out :
          \E i \in 1..Len(xlsx_out[f].Branchsite_Model) :
              xlsx_out[f].Branchsite_Model[i].LRT # 0

\* The sheets written for a table, none when no workbook was written.
SheetsOf(f) ==
    IF f \in DOMAIN xlsx_out THEN xlsx_out[f]
    ELSE [Branchsite_Model |-> <<>>, Branch_Model |-> <<>>]

\* The position of the first row of a table whose name strips to gene g.
FirstOf(rows, g) == CHOOSE i \in 1..Len(rows) :
                        StripSuffix(rows[i].Analysis) = g
                        /\ \A j \in 1..(i - 1) : StripSuffix(rows[j].Analysis) # g

\* Whether the rows of a sheet follow the first appearance of their genes.
InOrderOfAppearance(rows, sheet) ==
    \A i, j \in 1..Len(sheet) :
        i < j => FirstOf(rows, sheet[i].Gene) < FirstOf(rows, sheet[j].Gene)

\* C6: for every gene of a table the loop has taken, there is exactly one
\* branch-site result if both its _BS and _BS_NULL rows are present and none
\* otherwise, exactly one branch result if its _B row is present (and the
\* table has the M0 row it is compared with) and none otherwise, in order of
\* first appearance of the genes.
C6_OneResultPerCompleteGene ==
    \A f \in (DOMAIN csv_dir) \ csv_todo :
        csv_dir[f].has_cols /\ gene_pc # "raised" =>
            LET rows == csv_dir[f].rows
                bs == SheetsOf(f).Branchsite_Model
                b == SheetsOf(f).Branch_Model
            IN /\ \A g \in GenesOf(rows) :
                    /\ Cardinality({i \in 1..Len(bs) : bs[i].Gene = g})
                         = IF g \in BranchsiteGenes(rows) THEN 1 ELSE 0
                    /\ Cardinality({i \in 1..Len(b) : b[i].Gene = g})
                         = IF g \in BranchGenes(rows) /\ HasRow(rows, <<"M0">>) THEN 1 ELSE 0
               /\ InOrderOfAppearance(rows, bs)
               /\ InOrderOfAppearance(rows, b)

\* The row (null, alternative, LRT, df) the claim expects for a comparison.
RowOfNum(rows, k) == rows[CHOOSE i \in 1..Len(rows) : rows[i].Model.num = k]
HasNum(rows, k) == \E i \in 1..Len(rows) : rows[i].Model.num = k

RECURSIVE ExpectedSite(_, _)
ExpectedSite(rows, pairs) ==
    IF pairs = <<>> THEN <<>>
    ELSE LET n0 == Head(pairs)[1]
             n1 == Head(pairs)[2]
         IN (IF HasNum(rows, n0) /\ HasNum(rows, n1)
             THEN <<<<n0, n1, 2 * (RowOfNum(rows, n1).lnL - RowOfNum(rows, n0).lnL),
                      RowOfNum(rows, n1).np - RowOfNum(rows, n0).np>>>>
             ELSE <<>>) \o ExpectedSite(rows, Tail(pairs))

\* The rows of lrt_results.csv, none when the file was not written.
SiteRows == IF lrt_results_csv = <<>> THEN <<>> ELSE lrt_results_csv[1]

PlainLabels(rows) == \A i \in 1..Len(rows) : rows[i].Model.tail = <<>>

Clamp(x, len_nt) == Max(1, Min(x, len_nt))

\* C8: for a positive scale factor and an alignment that is not empty, the
\* interval that is trimmed, and against which trim_start and trim_end are
\* measured, is ((cs-1)*scale+1, ce*scale) with both ends clamped to [1, L].
C8_RawIntervalClamped ==
    (scale >= 1 /\ aln_len_nt >= 1) =>
        \A i \in 1..Len(nt_blocks) :
            LET b == nt_blocks[i]
            IN /\ b[3] - b[5] = Clamp((b[1] - 1) * scale + 1, aln_len_nt)
               /\ b[4] + b[6] = Clamp(b[2] * scale, aln_len_nt)

\* C9: adjust_to_codon_boundaries applied to the interval it returned gives the
\* same interval back, with trim_start = trim_end = 0.
C9_AdjustIdempotent ==
    Len(adj_res) = 2 => adj_res[2] = <<adj_res[1][1], adj_res[1][2], 0, 0>>

\* C10: infer_scale_factor never raises and returns a positive integer:
\* L / n_sites when the site count is a positive integer dividing L, else 1.
C10_ScaleFailSafe ==
    /\ split_err # "AttributeError"
    /\ split_pc \in {"scaled", "emit", "done"} =>
          /\ scale >= 1
          /\ scale = IF /\ gard.input.t = "int"
                        /\ gard.input.v > 0
                        /\ aln_len_nt % gard.input.v = 0
                     THEN aln_len_nt \div gard.input.v
                     ELSE 1

\* ----------------------------------------------------------- claims C11-C20

\* The verdict the rules of the validator give a block, taken in their order:
\* no records, length of the alignment not a multiple of 3, a record with an
\* in-frame stop codon (the first one in file order is named), else valid.
RuleVerdict(recs) ==
    IF recs = <<>> THEN [ok |-> FALSE, kind |-> "empty alignment", len |-> 0, id |-> ""]
    ELSE IF Len(recs[1].seq) % 3 # 0
    THEN [ok |-> FALSE, kind |-> "length not divisible by 3",
          len |-> Len(recs[1].seq), id |-> ""]
    ELSE IF \E i \in 1..Len(recs) : InFrameStop(recs[i].seq)
    THEN LET first == CHOOSE i \in 1..Len(recs) :
                          /\ InFrameStop(recs[i].seq)
                          /\ \A j \in 1..(i - 1) : ~InFrameStop(recs[j].seq)
         IN [ok |-> FALSE, kind |-> "stop codon found in", len |-> 0, id |-> recs[first].id]
    ELSE [ok |-> TRUE, kind |-> "valid", len |-> 0, id |-> ""]

\* C11: every verdict main() printed is the one the first applicable rule
\* gives the file as it was found: "empty alignment", else the length that
\* is no multiple of 3, else the first record with a stop codon at an offset
\* 3k, else valid; a file with both a non-triplet length and a stop codon is
\* reported for its length.
C11_FirstApplicableRule ==
    \A k \in 1..Len(filt_out) :
        LET e == filt_out[k]
            v == RuleVerdict(recomb_dir0[e.path].recs)
        IN /\ e.ok = v.ok
           /\ e.reason.kind = v.kind
           /\ e.reason.len = v.len
           /\ e.reason.id = v.id

\* A block of 7 nt with TAG at offset 3 was reported for its length, and a
\* block was reported for the stop codon of its second record.
C11_Witness ==
    /\ \E k \in 1..Len(filt_out) :
          /\ recomb_dir0[filt_out[k].path].recs # <<>>
          /\ recomb_dir0[filt_out[k].path].recs[1].seq = <<"A", "T", "G", "T", "A", "G", "G">>
          /\ filt_out[k].reason.kind = "length not divisible by 3"
          /\ filt_out[k].reason.len = 7
    /\ \E k \in 1..Len(filt_out) :
          /\ filt_out[k].reason.kind = "stop codon found in"
          /\ filt_out[k].reason.id = "seq2"

\* The .fas files main() found under recombination_blocks/, and of these the
\* ones the validator's rules make invalid.
FasFiles0 == {p \in DOMAIN recomb_dir0 : p.ext = ".fas"}
Invalid0 == {p \in FasFiles0 : ~RuleVerdict(recomb_dir0[p].recs).ok}

\* C12: once main() has completed, every .fas file it found is in exactly one
\* place with the content it had: a valid one at its path, an invalid one at
\* discarded_blocks/<name of its parent directory>/<file name> and no longer
\* at its path, and no two files were moved to the same place.
C12_MovedNotLost ==
    filt_pc = "done" =>
        /\ \A p \in FasFiles0 \ Invalid0 :
              /\ p \in DOMAIN blocks_fs
              /\ blocks_fs[p] = recomb_dir0[p]
        /\ \A p \in Invalid0 :
              /\ p \notin DOMAIN blocks_fs
              /\ <<p.dir[Len(p.dir)], p.file, p.ext>> \in DOMAIN discard_fs
              /\ discard_fs[<<p.dir[Len(p.dir)], p.file, p.ext>>] = recomb_dir0[p]
        /\ \A p, q \in Invalid0 :
              p # q => <<p.dir[Len(p.dir)], p.file, p.ext>> # <<q.dir[Len(q.dir)], q.file, q.ext>>

\* C13: in every corrected batch the adjusted values are monotone in rank
\* order: a raw p-value that is not larger than another has an adjusted value
\* that is not larger than the other's.
C13_MonotoneInRank ==
    bh_corrected # <<>> =>
        \A a, b \in 1..Len(bh_pvals) :
            ~RLess(bh_pvals[b], bh_pvals[a]) =>
                ~RLess(bh_corrected[1][b], bh_corrected[1][a])

\* A corrected batch where p * m / rank alone is not monotone: 0.03 and 0.04
\* out of two give 0.06 and 0.04.
C13_Witness ==
    /\ bh_pvals = <<Rat(4, 100), Rat(3, 100)>>
    /\ bh_corrected = <<<<Rat(4, 100), Rat(4, 100)>>>>

\* The permutations of 1..n.
Perms(n) == {f \in [1..n -> 1..n] : \A i, j \in 1..n : f[i] = f[j] => i = j}

\* Whether sheet is the list inp of uncorrected results with its adjusted
\* values laid over it: as long as inp, row k with the gene, LRT and p-value of
\* inp[k] and the adjusted value of that p-value, and a permutation of inp
\* corrected gives the same permutation of sheet.
IsOverlay(inp, sheet) ==
    /\ Len(sheet) = Len(inp)
    /\ \A k \in 1..Len(inp) :
          /\ sheet[k].Gene = inp[k].Gene
          /\ sheet[k].LRT = inp[k].LRT
          /\ sheet[k].p_value = inp[k].p_value
    /\ inp # <<>> => IsStepUpMinimum(PColumn(inp), FDRColumn(sheet))
    /\ \A f \in Perms(Len(inp)) :
          WithFDR([k \in 1..Len(inp) |-> inp[f[k]]]) = [k \in 1..Len(inp) |-> sheet[f[k]]]

\* C14: each sheet written has the length and the order of the results the
\* test resolved from the table: row k carries pair k's gene, LRT and raw
\* p-value with that p-value's adjusted value, and permuting the results
\* permutes the sheet in the same way (it is never left in sorted order).
C14_OrderPreserved ==
    \A f \in DOMAIN xlsx_out :
        LET rows == csv_dir[f].rows
            genes == UniqueGenes(rows, {})
        IN /\ IsOverlay(BranchsiteResults(rows, genes), xlsx_out[f].Branchsite_Model)
           /\ IsOverlay(BranchResults(rows, genes, FirstLnL(rows, <<"M0">>)),
                        xlsx_out[f].Branch_Model)

\* A sheet whose p-values are not in ascending order: an earlier row has the
\* larger adjusted value.
C14_Witness ==
    \E f \in DOMAIN xlsx_out :
        \E i, j \in 1..Len(xlsx_out[f].Branch_Model) :
            /\ i < j
            /\ RLess(xlsx_out[f].Branch_Model[j].FDR_Corrected_P,
                     xlsx_out[f].Branch_Model[i].FDR_Corrected_P)

\* Whether a written row carries a flag that is "Yes" exactly when its
\* adjusted p-value adj is below 0.05.
FlaggedAt005(row, adj) ==
    /\ "Significant" \in DOMAIN row
    /\ row.Significant \in {"Yes", "No"}
    /\ row.Significant = "Yes" <=> (~IsNaN(adj) /\ RLess(adj, Rat(5, 100)))

\* C15: every corrected result written, a row of a sheet of a per-gene
\* workbook or a row of lrt_results.csv (one whose adjusted p-value is a
\* number), carries a significance flag that is "Yes" if and only if its
\* BH-adjusted p-value is strictly below 0.05.
C15_SignificanceFlag ==
    /\ \A f \in DOMAIN xlsx_out :
          /\ \A k \in 1..Len(xlsx_out[f].Branchsite_Model) :
                FlaggedAt005(xlsx_out[f].Branchsite_Model[k],
                             xlsx_out[f].Branchsite_Model[k].FDR_Corrected_P)
          /\ \A k \in 1..Len(xlsx_out[f].Branch_Model) :
                FlaggedAt005(xlsx_out[f].Branch_Model[k],
                             xlsx_out[f].Branch_Model[k].FDR_Corrected_P)
    /\ \A k \in 1..Len(SiteRows) :
          ~IsNaN(SiteRows[k].BH_corrected) =>
              FlaggedAt005(SiteRows[k], SiteRows[k].BH_corrected)

\* The items of the driver that have the input their step needs: the GARD
\* report of an alignment, the CSV file of a species.
WithInput ==
    {i \in 1..Len(drv_items) :
        IF drv = "script0.5.py" THEN drv_items[i].gard = "ok"
        ELSE drv_items[i].child # "nocsv"}

\* Whether a report of the given kinds was printed for item i.
Reported(i, kinds) ==
    \E k \in 1..Len(drv_out) : drv_out[k].item = i /\ drv_out[k].what \in kinds

\* C16: over two items or more, no driver is ended by the failure of the
\* child process of one item, and when a driver has ended, the child of every
\* item with its input was run and every failed one was reported for its item.
C16_FailureConfinedToItem ==
    Len(drv_items) >= 2 =>
    /\ drv_pc = "raised" => drv_next > Len(drv_items)
    /\ drv_pc \in {"done", "raised"} =>
          \A i \in WithInput :
              /\ i \in drv_invoked
              /\ drv_items[i].child = "fail" => Reported(i, {"BH correction failed"})

\* C17: an error raised while one block file is parsed or checked does not
\* end the validator: the run never ends on an exception, and when it has
\* ended every other .fas file of the tree has its verdict.
C17_ParseErrorConfined ==
    /\ filt_pc # "raised"
    /\ filt_pc \in {"done", "raised"} =>
          \A p \in FasFiles0 :
              recomb_dir0[p].readable => \E k \in 1..Len(filt_out) : filt_out[k].path = p

\* Whether a per-gene table with its M0 row resolves a pair of either test.
ResolvesPair(rows) == BranchsiteGenes(rows) # {} \/ BranchGenes(rows) # {}

\* C18: a table that resolves no pair does not end the aggregator on an
\* exception, and when the aggregator has ended, every table of the directory
\* that has its columns, its M0 row and a pair has its workbook.
C18_ZeroPairsNotFatal ==
    /\ gene_pc # "raised"
    /\ gene_pc \in {"done", "raised"} =>
          \A f \in DOMAIN csv_dir :
              (/\ csv_dir[f].has_cols
               /\ HasRow(csv_dir[f].rows, <<"M0">>)
               /\ ResolvesPair(csv_dir[f].rows)) => f \in DOMAIN xlsx_out

\* C19: for a table the loop has taken that has its columns and no M0 row,
\* only the branch test is skipped: the workbook is written without branch
\* results and with the corrected branch-site result of every gene that has
\* both its _BS and its _BS_NULL row.
C19_MissingM0SkipsBranchOnly ==
    \A f \in (DOMAIN csv_dir) \ csv_todo :
        LET rows == csv_dir[f].rows
        IN (/\ csv_dir[f].has_cols
            /\ ~HasRow(rows, <<"M0">>)
            /\ BranchsiteGenes(rows) # {}) =>
               /\ f \in DOMAIN xlsx_out
               /\ xlsx_out[f].Branch_Model = <<>>
               /\ \A g \in BranchsiteGenes(rows) :
                     \E k \in 1..Len(xlsx_out[f].Branchsite_Model) :
                         LET r == xlsx_out[f].Branchsite_Model[k]
                         IN /\ r.Gene = g
                            /\ r.LRT = 2 * (FirstLnL(rows, g \o <<"_BS">>)
                                            - FirstLnL(rows, g \o <<"_BS", "_NULL">>))
                            /\ "FDR_Corrected_P" \in DOMAIN r

\* C20: for a plainly labelled table, a comparison with both models present
\* whose LRT is negative or whose parameter-count difference is zero or
\* negative has exactly one row in lrt_results.csv, with that LRT and that
\* difference as they are.
C20_DegeneratePassedThrough ==
    (site_pc \in {"done", "exited"} /\ PlainLabels(site_csv.rows)) =>
        \A pair \in {<<0, 1>>, <<1, 2>>, <<0, 3>>, <<7, 8>>} :
            (HasNum(site_csv.rows, pair[1]) /\ HasNum(site_csv.rows, pair[2])) =>
                LET lrt == 2 * (RowOfNum(site_csv.rows, pair[2]).lnL
                                - RowOfNum(site_csv.rows, pair[1]).lnL)
                    dfd == RowOfNum(site_csv.rows, pair[2]).np
                           - RowOfNum(site_csv.rows, pair[1]).np
                    hits == {k \in 1..Len(SiteRows) :
                                /\ SiteRows[k].Null_Model = pair[1]
                                /\ SiteRows[k].Alternative_Model = pair[2]}
                IN (lrt < 0 \/ dfd <= 0) =>
                       /\ Cardinality(hits) = 1
                       /\ \A k \in hits :
                             SiteRows[k].LRT_Statistic = lrt /\ SiteRows[k].df = dfd

\* A written file with a row of negative LRT and negative difference and a
\* row of difference zero.
C20_Witness ==
    /\ site_pc = "done"
    /\ PlainLabels(site_csv.rows)
    /\ \E k \in 1..Len(SiteRows) : SiteRows[k].LRT_Statistic < 0 /\ SiteRows[k].df < 0
    /\ \E k \in 1..Len(SiteRows) : SiteRows[k].df = 0

\* ----------------------------------------------------------- claims C21-C30

\* C22: when the alignment length L is a positive multiple of 3 and the report
\* gives L/3 sites, the scale factor is 3 and every native interval (cs, ce)
\* with 1 <= cs <= ce <= L/3 is written as the block (3*cs - 2, 3*ce) with
\* trim_start = trim_end = 0; L = 900 with [[1,50],[51,300]] gives (1,150) and
\* (151,900).
C22_CodonScaleExact ==
    /\ (/\ split_pc = "done"
        /\ gard.input.t = "int"
        /\ aln_len_nt > 0
        /\ 3 * gard.input.v = aln_len_nt) =>
          /\ scale = 3
          /\ \A k \in 1..Len(codon_blocks) :
                LET cs == codon_blocks[k][1]
                    ce == codon_blocks[k][2]
                IN (1 <= cs /\ ce <= gard.input.v) =>
                      /\ \E f \in out_files :
                            f.cs = cs /\ f.ce = ce /\ f.snt = 3 * cs - 2 /\ f.ent = 3 * ce
                      /\ \E i \in 1..Len(nt_blocks) :
                            nt_blocks[i] = <<cs, ce, 3 * cs - 2, 3 * ce, 0, 0>>
    /\ split_pc = "done" =>
          LET g == [bps |-> <<<<1, 50>>, <<51, 300>>>>, input |-> [t |-> "int", v |-> 300]]
          IN ConvertBlocks(read_blocks_from_breakpointData(g), infer_scale_factor(900, g), 900)
               = <<<<1, 50, 1, 150, 0, 0>>, <<51, 300, 151, 900, 0, 0>>>>

\* A finished run over 6 nt and 2 sites that wrote the blocks (1,3) and (4,6).
C22_Witness ==
    /\ split_pc = "done"
    /\ aln_len_nt = 6
    /\ gard.input = [t |-> "int", v |-> 2]
    /\ codon_blocks = <<<<1, 1>>, <<2, 2>>>>
    /\ Cardinality(out_files) = 2

\* The length of the adjusted interval of a native interval (0 or less when
\* it is inverted).
AdjLen(cb) ==
    LET a == adjust_to_codon_boundaries((cb[1] - 1) * scale + 1, cb[2] * scale, aln_len_nt)
    IN a[2] - a[1] + 1

\* The positions of the log entries of one kind.
LogEntries(kind) == {k \in 1..Len(log) : log[k].kind = kind}

\* C23: once split_by_gard_json is through, a block file was written for a
\* native interval if and only if its adjusted interval has length >= 3; each
\* interval of adjusted length 1 or 2 has a skip notice in the log and no
\* file; an inverted one has neither; and no error is raised once the
\* intervals are being converted.
C23_FileIffOneCodon ==
    /\ split_pc = "raised" => (nt_blocks = <<>> /\ log = <<>>)
    /\ split_pc = "done" =>
          /\ \A k \in 1..Len(codon_blocks) :
                (AdjLen(codon_blocks[k]) >= 3) <=>
                    \E f \in out_files :
                        f.cs = codon_blocks[k][1] /\ f.ce = codon_blocks[k][2]
          /\ Cardinality(out_files) = Cardinality(LogEntries("saved"))
          /\ Cardinality(LogEntries("skipped"))
                = Cardinality({k \in 1..Len(codon_blocks) : AdjLen(codon_blocks[k]) \in {1, 2}})
          /\ \A k \in LogEntries("skipped") :
                nt_blocks[log[k].idx][4] - nt_blocks[log[k].idx][3] + 1 \in {1, 2}

\* A finished run with a block written, a skip notice, or with a block
\* written and an inverted interval dropped.
C23_Witness ==
    /\ split_pc = "done"
    /\ out_files # {}
    /\ \/ LogEntries("skipped") # {}
       \/ \E k \in 1..Len(codon_blocks) : AdjLen(codon_blocks[k]) <= 0

\* The columns lo..hi of a native or nucleotide interval (none when inverted).
Columns(lo, hi) == {x \in lo..hi : TRUE}

\* The native intervals of the report are pairwise disjoint.
NativeDisjoint ==
    \A i, j \in 1..Len(codon_blocks) :
        i < j => Columns(codon_blocks[i][1], codon_blocks[i][2])
                   \cap Columns(codon_blocks[j][1], codon_blocks[j][2]) = {}

\* C29: when the native intervals are pairwise disjoint, the nucleotide
\* ranges of the block files written for the alignment are pairwise disjoint
\* and increase with the block number.
C29_BlocksDisjoint ==
    NativeDisjoint =>
        \A f, g \in out_files : f.idx < g.idx => f.ent < g.snt

\* Two block files written from two disjoint native intervals.
C29_Witness ==
    /\ split_pc = "done"
    /\ NativeDisjoint
    /\ Len(codon_blocks) = 2
    /\ Cardinality(out_files) = 2

\* C30: for every block file written, trim_start and trim_end are each 0, 1
\* or 2 and the written range satisfies 1 <= start <= end <= L and lies inside
\* the raw mapped interval ((cs-1)*scale + 1, ce*scale).
C30_TrimsAndRange ==
    \A f \in out_files :
        LET row == nt_blocks[f.idx]
        IN /\ row[5] \in 0..2
           /\ row[6] \in 0..2
           /\ 1 <= f.snt /\ f.snt <= f.ent /\ f.ent <= aln_len_nt
           /\ (f.cs - 1) * scale + 1 <= f.snt
           /\ f.ent <= f.ce * scale

\* C24: every file check_block reported valid is a well-formed codon
\* alignment: all of its sequences have the length of the first, and that
\* length is divisible by 3, also when the records of the file differ in
\* length.
C24_ValidIsCodonAlignment ==
    \A k \in 1..Len(filt_out) :
        filt_out[k].ok =>
            LET recs == recomb_dir0[filt_out[k].path].recs
            IN \A i \in 1..Len(recs) :
                  /\ Len(recs[i].seq) = Len(recs[1].seq)
                  /\ Len(recs[i].seq) % 3 = 0

\* What the site aggregator writes for the table of invocation i.
OwnResults(i) == SiteWithBH(SiteResults(par_inv[i].in.rows, 1))

\* C21: two invocations for different inputs, run side by side, write to
\* disjoint paths: under every interleaving each file an invocation has
\* written still holds what that invocation wrote; the other one has not
\* overwritten, truncated or taken it.
C21_DisjointOutputs ==
    ~par_serial =>
        \A i \in DOMAIN par_inv :
            LET st == par_inv[i]
            IN /\ (st.in.tool = "split" /\ st.pc = "done") =>
                     /\ LogFile(st.in.name) \in DOMAIN par_fs
                     /\ par_fs[LogFile(st.in.name)].lines = st.buf
               /\ (st.in.tool = "split" /\ st.pc \in {"emit", "done"}) =>
                     \A k \in 2..Len(st.buf) :
                         st.buf[k].kind = "saved" =>
                             LET b == st.nt_blocks[k - 1]
                                 f == BlockFile(st.in.name, k - 1, b[1], b[2])
                             IN /\ f \in DOMAIN par_fs
                                /\ par_fs[f] = [src |-> st.in.name, snt |-> b[3], ent |-> b[4]]
               /\ (st.in.tool = "site" /\ st.pc = "written") =>
                     /\ CwdResults \in DOMAIN par_fs
                     /\ par_fs[CwdResults].rows = OwnResults(i)
               /\ (st.in.tool = "site" /\ st.pc = "done") =>
                     /\ MovedResults(st.in.name[1]) \in DOMAIN par_fs
                     /\ par_fs[MovedResults(st.in.name[1])].rows = OwnResults(i)

\* Whether the lines of a log file hold the entry as one run of lines.
HoldsEntry(lines, entry) ==
    \E off \in 0..(Len(lines) - Len(entry)) :
        \A k \in 1..Len(entry) : lines[off + k] = entry[k]

\* C25: after split_by_gard_json has been run for several alignments, one
\* after the other, the log holds the entry of each of them: a later run
\* never removes or overwrites the entry of an earlier one.
C25_LogAppendOnly ==
    par_serial =>
        \A i \in DOMAIN par_inv :
            (par_inv[i].in.tool = "split" /\ par_inv[i].pc = "done") =>
                \E f \in DOMAIN par_fs :
                    f.kind = "log" /\ HoldsEntry(par_fs[f].lines, par_inv[i].buf)

\* The lines of the log of a script, in the model folder or, once moved, in
\* the output folder of the job.
AllLines(f) ==
    IF f \in DOMAIN FilesOf(mf_dirs, "logs") THEN mf_dirs["logs"][f]
    ELSE IF f \in DOMAIN FilesOf(api_out[1], "logs") THEN api_out[1]["logs"][f]
    ELSE <<>>

\* The lines of a log the client was sent, in the order of their events.
Delivered(f) ==
    LET ev == SelectSeq(str_out, LAMBDA e : e.file = f)
    IN [i \in 1..Len(ev) |-> ev[i].line]

\* C26: when the stream of a job has ended, the client has been sent every
\* line of each log of the job exactly once, in file order, the lines written
\* between the last poll and the terminal status included, and the last event
\* is the terminal status. Stated for the jobs that finished and whose logs
\* the streamer had all found while it polled.
C26_StreamDeliversAll ==
    (/\ str_pc = "end"
     /\ api_jobs[1].status = "finished"
     /\ \A k \in 1..Len(scripts) : scripts[k] \in DOMAIN file_positions) =>
        /\ \A k \in 1..Len(scripts) : Delivered(scripts[k]) = AllLines(scripts[k])
        /\ str_out[Len(str_out)] = [file |-> "__status__", line |-> api_jobs[1].status]

\* C27: a job has status "finished" only if every script of the pipeline ran,
\* in the listed order, and exited with code 0; a job that has ended after a
\* script failed has status "failed".
C27_FinishedOnlyIfAllZero ==
    \A j \in DOMAIN api_jobs :
        /\ api_jobs[j].status = "finished" =>
              api_jobs[j].codes = [k \in 1..Len(scripts) |-> 0]
        /\ (api_jobs[j].pc = "end"
              /\ \E k \in 1..Len(api_jobs[j].codes) : api_jobs[j].codes[k] # 0) =>
              api_jobs[j].status = "failed"

\* Whether the output folder of job i holds a line or a file of another job.
ForeignIn(i) ==
    \E d \in DOMAIN api_out[i] :
        \E f \in DOMAIN api_out[i][d] :
            \E k \in 1..Len(api_out[i][d][f]) : api_out[i][d][f][k].job \notin {0, i}

\* C28: while a job of the same model is still running, the post-processing
\* of the job whose scripts all succeeded first has moved to its output
\* folder only what its own run made, and the upload of the running job is
\* still in the model folder.
C28_OnlyOwnFiles ==
    \A i, j \in DOMAIN api_jobs :
        (/\ i # j
         /\ api_jobs[i].pc \in {"moved", "cleaned", "end"}
         /\ api_jobs[i].codes = [k \in 1..Len(scripts) |-> 0]
         /\ api_jobs[j].pc \in {"spawned", "running", "exited"}) =>
            /\ ~ForeignIn(i)
            /\ FastaOf(j) \in DOMAIN mf_files

====
